---- MODULE Spec2Model ----
(***************************************************************************)
(* NauPanel backend (src/backend/run-backend.sh, the Express + ws server   *)
(* that starts at line 32): the server registry, the per-server lifecycle  *)
(* state, the per-server log buffer and the live console subscriber sets.  *)
(*                                                                         *)
(* Node runs every handler to completion before the next event, so each    *)
(* synchronous handler is one action.  Text is a sequence of string pieces *)
(* (a whitespace piece is " "); Join turns pieces into the string value.   *)
(*                                                                         *)
(* Next to the backend stand the directory trees its file routes work on,  *)
(* the browser client's services (src/frontend/src/app/services) and the   *)
(* client's mock API interceptor (src/unnamed/part_001).                   *)
(***************************************************************************)
EXTENDS Integers, Sequences, FiniteSets, TLC

VARIABLES
    loadState,          \* the loadServersConfig() promise: "pending" | "ok" | "failed"
    servers,            \* let servers: ServerConfig[]
    serversLoaded,      \* let serversLoaded
    serverStates,       \* Map<string, ServerState>
    serverLogs,         \* Map<string, string[]>
    serverSubscribers,  \* Map<string, Set<WsClient>>
    readyState,         \* ws.readyState of every connection object
    wsServerId,         \* ws.serverId of every connection object ("" = undefined)
    inbox,              \* what ws.send() has put on the wire of each open connection
    now,                \* the wall clock read by new Date()
    res,                \* the HTTP response the last step sent, if it sent one
    appended,           \* history: every line ever given to appendLog, per id
    calls               \* the invocations of the async routes (status, stats): where
                        \* each one stands, its rcon variable, the remote-console
                        \* session it opened, why its connect was rejected (history)
                        \* and how many responses it has sent (history)

VARIABLES
    disk,               \* the file system: absolute path |-> directory or file
    fsCalls,            \* history: the fs calls the last file request made, in order
    overtaken,          \* history: the status / stats calls that were awaiting
                        \* their connect when a stop was handled
    received            \* history: the last raw message each connection's
                        \* message handler was given

VARIABLES
    useMocks,           \* environment.useMocks of the client build
    console,            \* ConsoleSocketService: serverId, limit, socket, pollingId
                        \* and the value of logsSubject
    sockets,            \* readyState of every WebSocket object the client created
    timers,             \* the interval timers the client set: running or cleared
    fetches,            \* the log requests of fetchLogs() still in flight
    app,                \* AppStateService: servers, loading, error, loadToken
    loads               \* the loadServers() calls: request and fallback timer

VARIABLES
    mockStates,         \* part_001: const serverStates = new Map()
    mockLogs,           \* part_001: const serverLogs = new Map()
    mockRes             \* the response the interceptor returned last

backendVars == <<loadState, servers, serversLoaded, serverStates, serverLogs,
                 serverSubscribers, readyState, wsServerId, inbox, now, res, appended,
                 calls>>
diskVars == <<disk, fsCalls>>
consoleVars == <<useMocks, console, sockets, timers, fetches>>
appVars == <<app, loads>>
mockVars == <<mockStates, mockLogs, mockRes>>

\* everything outside the backend's module scope
others == <<diskVars, overtaken, received, consoleVars, appVars, mockVars>>

vars == <<backendVars, others>>

\* a step of the backend that touches neither its disk nor any client
Backend(step) == step /\ UNCHANGED others

(***************************************************************************)
(* Bounds of the model and program constants                               *)
(***************************************************************************)
MaxAppends == 2         \* lines appended one request at a time, all ids together
MaxSubscribes == 2      \* subscribe messages answered, all connections together
MaxClock == 1           \* clock ticks observed
MaxConns == 1           \* live console connections accepted
MaxPathLen == 3         \* characters of a path given to a reading file route
MaxCalls == 1           \* status and stats requests received
MaxLoads == 3           \* loadServers() calls made
MaxSockets == 2         \* WebSocket objects the client creates
MaxTimers == 2          \* interval timers the client sets
MaxFetches == 2         \* client requests in flight to the interceptor

LogCap == 200           \* logs.length > 200
DefaultLimit == 50      \* data.limit ?? 50, req.query.limit ?? 50

ConfigIds == <<"s1", "s2">>     \* the ids of the entries of the config file
UnknownId == "zz"               \* an id no config entry has
Ids == {ConfigIds[i] : i \in 1..Len(ConfigIds)} \cup {UnknownId}
Conns == 1..MaxConns            \* the connection objects, in order of creation
Calls == 1..MaxCalls            \* the status / stats requests, in order of arrival
Actions == {"start", "stop", "restart"}

(***************************************************************************)
(* Maps (JavaScript Map): a function whose DOMAIN is the key set           *)
(***************************************************************************)
EmptyMap == [k \in {} |-> k]
MapHas(m, k) == k \in DOMAIN m
MapGet(m, k, default) == IF k \in DOMAIN m THEN m[k] ELSE default
MapSet(m, k, v) == IF k \in DOMAIN m THEN [m EXCEPT ![k] = v] ELSE m @@ (k :> v)

Min(a, b) == IF a < b THEN a ELSE b
Max(a, b) == IF a > b THEN a ELSE b

(***************************************************************************)
(* Text                                                                    *)
(***************************************************************************)
IsSpace(piece) == piece \in {" ", "\t", "\n"}

RECURSIVE TrimStart(_)
TrimStart(t) == IF t # <<>> /\ IsSpace(t[1]) THEN TrimStart(Tail(t)) ELSE t

RECURSIVE TrimEnd(_)
TrimEnd(t) ==
    IF t # <<>> /\ IsSpace(t[Len(t)]) THEN TrimEnd(SubSeq(t, 1, Len(t) - 1)) ELSE t

\* String.prototype.trim
Trim(t) == TrimEnd(TrimStart(t))

RECURSIVE Join(_)
Join(t) == IF t = <<>> THEN "" ELSE t[1] \o Join(Tail(t))

\* A JSON / query value: absent, a number, or a string
Absent == [kind |-> "absent", num |-> 0, text |-> <<>>]
Num(n) == [kind |-> "num", num |-> n, text |-> <<>>]
Str(t) == [kind |-> "str", num |-> 0, text |-> t]

Digits == <<"0", "1", "2", "3", "4", "5", "6", "7", "8", "9">>

RECURSIVE NatToText(_)
NatToText(n) ==
    IF n < 10 THEN <<Digits[n + 1]>>
    ELSE NatToText(n \div 10) \o <<Digits[(n % 10) + 1]>>

\* String(value ?? "") as pieces
ToText(v) ==
    CASE v.kind = "absent" -> <<>>
      [] v.kind = "str" -> v.text
      [] OTHER -> IF v.num < 0 THEN <<"-">> \o NatToText(0 - v.num)
                  ELSE NatToText(v.num)

DigitVal(piece) ==
    CASE piece = "0" -> 0 [] piece = "1" -> 1 [] piece = "2" -> 2
      [] piece = "3" -> 3 [] piece = "4" -> 4 [] piece = "5" -> 5
      [] piece = "6" -> 6 [] piece = "7" -> 7 [] piece = "8" -> 8
      [] piece = "9" -> 9 [] OTHER -> -1

RECURSIVE DecimalVal(_)
DecimalVal(t) ==
    IF t = <<>> THEN 0
    ELSE 10 * DecimalVal(SubSeq(t, 1, Len(t) - 1)) + DigitVal(t[Len(t)])

NaN == [nan |-> TRUE, val |-> 0]
Finite(n) == [nan |-> FALSE, val |-> n]

\* Number(value): whitespace-only and empty strings are 0, digit strings their
\* value, an optional leading "-" negates, anything else is NaN
StringToNumber(t) ==
    LET s == Trim(t)
        neg == s # <<>> /\ s[1] = "-"
        digits == IF neg THEN Tail(s) ELSE s
    IN  IF s = <<>> THEN Finite(0)
        ELSE IF digits # <<>> /\ \A i \in 1..Len(digits) : DigitVal(digits[i]) >= 0
             THEN Finite(IF neg THEN 0 - DecimalVal(digits) ELSE DecimalVal(digits))
             ELSE NaN

\* Number(value ?? 50)
ToNumber(v) ==
    CASE v.kind = "absent" -> Finite(DefaultLimit)
      [] v.kind = "num" -> Finite(v.num)
      [] OTHER -> StringToNumber(v.text)

\* const limit = Number.isNaN(limitParam) ? 50 : Math.max(1, limitParam)
EffectiveLimit(v) ==
    LET limitParam == ToNumber(v)
    IN  IF limitParam.nan THEN DefaultLimit ELSE Max(1, limitParam.val)

\* slice(-limit - 1): one line too many
SliceLastOneMore(logs, limit) ==
    SubSeq(logs, Max(Len(logs) - (limit + 1), 0) + 1, Len(logs))

\* slice(0, limit): the oldest lines instead of the newest
SliceFirst(logs, limit) == SubSeq(logs, 1, Min(limit, Len(logs)))

\* Array.prototype.slice(-limit) for an integer limit >= 1
SliceLast(logs, limit) ==
    LET start == Max(Len(logs) - limit, 0)
    IN  SubSeq(logs, start + 1, Len(logs))

(***************************************************************************)
(* Registry                                                                *)
(***************************************************************************)
\* A parsed config file (yaml.load): kind "unreadable" when readFile or
\* yaml.load throws, "noarray" when there is no servers array, else "array".
\* An entry's id, name, path and port are JSON values; a name is written one
\* character per piece.
Unreadable == [kind |-> "unreadable", servers |-> <<>>]
NoArray == [kind |-> "noarray", servers |-> <<>>]
File(entries) == [kind |-> "array", servers |-> entries]

NoRcon == [configured |-> FALSE, password |-> ""]
RconWith(password) == [configured |-> TRUE, password |-> password]
Entry(id, name, path, port, rcon) ==
    [id |-> id, name |-> name, path |-> path, port |-> port, rcon |-> rcon]

UpperCase == <<"A", "B", "S">>
LowerCase == <<"a", "b", "s">>
LowerLetters ==
    {"a", "b", "c", "d", "e", "f", "g", "h", "i", "j", "k", "l", "m",
     "n", "o", "p", "q", "r", "s", "t", "u", "v", "w", "x", "y", "z"}

\* String.prototype.toLowerCase, piece by piece
ToLowerCase(t) ==
    [i \in 1..Len(t) |->
        IF \E u \in 1..Len(UpperCase) : UpperCase[u] = t[i]
        THEN LowerCase[CHOOSE u \in 1..Len(UpperCase) : UpperCase[u] = t[i]]
        ELSE t[i]]

IsSlugChar(piece) == piece \in LowerLetters \/ DigitVal(piece) >= 0

\* replace(/[^a-z0-9]+/g, "-"): every run of other characters becomes one "-"
RECURSIVE ReplaceRuns(_)
ReplaceRuns(t) ==
    IF t = <<>> THEN <<>>
    ELSE IF IsSlugChar(t[1]) THEN <<t[1]>> \o ReplaceRuns(Tail(t))
    ELSE IF Len(t) > 1 /\ ~IsSlugChar(t[2]) THEN ReplaceRuns(Tail(t))
    ELSE <<"-">> \o ReplaceRuns(Tail(t))

\* replace(/(^-|-$)/g, "")
StripDashes(t) ==
    LET head == IF t # <<>> /\ t[1] = "-" THEN Tail(t) ELSE t
    IN  IF head # <<>> /\ head[Len(head)] = "-" THEN SubSeq(head, 1, Len(head) - 1)
        ELSE head

toSlug(value) == StripDashes(ReplaceRuns(ToLowerCase(Trim(value))))

\* Number(server.port): Number(undefined) is NaN
PortNumber(v) ==
    CASE v.kind = "absent" -> NaN
      [] v.kind = "num" -> Finite(v.num)
      [] OTHER -> StringToNumber(v.text)

\* the callback of parsed.servers.map: one entry, valid or throwing
MapEntry(server, index) ==
    LET name == Trim(ToText(server.name))
        serverPath == Trim(ToText(server.path))
        portValue == PortNumber(server.port)
        explicitId == Trim(ToText(server.id))
        idSource == IF explicitId # <<>> THEN explicitId
                    ELSE IF name # <<>> THEN name
                    ELSE <<"s", "e", "r", "v", "e", "r", "-">> \o NatToText(index + 1)
    IN  IF name = <<>> \/ serverPath = <<>> \/ portValue.nan
        THEN [ok |-> FALSE, value |-> <<>>]
        ELSE [ok |-> TRUE,
              value |-> [id |-> IF explicitId # <<>> THEN Join(explicitId)
                                ELSE Join(toSlug(idSource)),
                         name |-> Join(name),
                         path |-> Join(serverPath),
                         port |-> portValue.val,
                         rcon |-> server.rcon]]

\* loadServersConfig: ok with the ServerConfig[] or not ok (the promise rejects)
loadServersConfig(file) ==
    LET mapped == [i \in 1..Len(file.servers) |-> MapEntry(file.servers[i], i - 1)]
    IN  IF file.kind # "array" THEN [ok |-> FALSE, data |-> <<>>]
        ELSE IF \E i \in 1..Len(mapped) : ~mapped[i].ok THEN [ok |-> FALSE, data |-> <<>>]
        ELSE [ok |-> TRUE, data |-> [i \in 1..Len(mapped) |-> mapped[i].value]]

\* config/servers.yaml as deployed: the first server has an explicit id and
\* remote-console credentials, the second a derived id and an rcon block
\* without a password
ConfigFile ==
    File(<<Entry(Str(<<ConfigIds[1]>>), Str(<<"A">>), Str(<<"/srv/a">>), Num(25565),
                 RconWith("secret")),
           Entry(Absent, Str(<<" ", "S", "2", " ">>), Str(<<"/srv/b">>), Str(<<"2", "5", "5", "6", "6">>),
                 RconWith(""))>>)

\* config files: the deployed one; one whose second entry derives the id of
\* the first from its name; one without a port; one without a name
DuplicateFile ==
    File(<<Entry(Str(<<ConfigIds[1]>>), Str(<<"A">>), Str(<<"/srv/a">>), Num(25565),
                 RconWith("secret")),
           Entry(Absent, Str(<<" ", "S", "1", "!">>), Str(<<"/srv/b">>), Num(25566), NoRcon)>>)
NoPortFile ==
    File(<<Entry(Str(<<ConfigIds[1]>>), Str(<<"A">>), Str(<<"/srv/a">>), Num(25565),
                 RconWith("secret")),
           Entry(Str(<<ConfigIds[2]>>), Str(<<"B">>), Str(<<"/srv/b">>), Absent, NoRcon)>>)
NoNameFile ==
    File(<<Entry(Str(<<ConfigIds[1]>>), Str(<<" ">>), Str(<<"/srv/a">>), Num(25565), NoRcon)>>)
ConfigFiles == {ConfigFile, DuplicateFile, NoPortFile, NoNameFile, Unreadable, NoArray}

\* the ServerConfig[] that file yields
LoadedServers == loadServersConfig(ConfigFile).data

\* servers.find((server) => server.id === id); NoServer is undefined
NoServer == [id |-> "", name |-> "", path |-> "", port |-> 0, rcon |-> NoRcon]
getServerById(id) ==
    LET hits == {i \in 1..Len(servers) : servers[i].id = id}
    IN  IF hits = {} THEN NoServer
        ELSE servers[CHOOSE i \in hits : \A j \in hits : i <= j]

DefaultState == [status |-> "offline", lastAction |-> "null", lastActionAt |-> <<"null">>]

\* new Date().toISOString()
ToISOString(t) == <<"iso", t>>

(***************************************************************************)
(* Log buffer and live console fan-out                                     *)
(***************************************************************************)
\* What ws.send() was given (msg), with the history of why: the id whose
\* buffer the payload came from and, for a snapshot, the number of lines that
\* had been appended to that id when it was sent.
LogMsg(line, id) ==
    [msg |-> [type |-> "log", line |-> line, logs |-> <<>>], src |-> id, at |-> 0]
LogsMsg(logs, id, at) ==
    [msg |-> [type |-> "logs", line |-> "", logs |-> logs], src |-> id, at |-> at]

\* the buffers, the wires and the append history, threaded through appendLog
LogState == [logs |-> serverLogs, inbox |-> inbox, appended |-> appended]

\* subscribers.forEach((client) => { if (client.readyState === OPEN) client.send(payload) })
RECURSIVE SendToEach(_, _, _)
SendToEach(wires, clients, payload) ==
    IF clients = {} THEN wires
    ELSE LET client == CHOOSE c \in clients : TRUE
         IN  SendToEach(IF readyState[client] = "OPEN"
                        THEN [wires EXCEPT ![client] = Append(@, payload)]
                        ELSE wires,
                        clients \ {client}, payload)

\* broadcastLog that sends to nobody (the mock's appendLog has no fan-out)
broadcastLogNone(wires, id, line) == wires

broadcastLog(wires, id, line) ==
    SendToEach(wires, MapGet(serverSubscribers, id, {}), LogMsg(line, id))

\* splice(200): drops the newest lines instead of the oldest
PushCappedKeepOldest(logs, line) ==
    LET pushed == Append(logs, line)
    IN  IF Len(pushed) > LogCap THEN SubSeq(pushed, 1, LogCap) ELSE pushed

\* logs.push(line); if (logs.length > 200) logs.splice(0, logs.length - 200)
PushCapped(logs, line) ==
    LET pushed == Append(logs, line)
    IN  IF Len(pushed) > LogCap
        THEN SubSeq(pushed, (Len(pushed) - LogCap) + 1, Len(pushed))
        ELSE pushed

appendLog(st, id, line) ==
    LET logs == PushCapped(MapGet(st.logs, id, <<>>), line)
    IN  [logs |-> MapSet(st.logs, id, logs),
         inbox |-> broadcastLog(st.inbox, id, line),
         appended |-> [st.appended EXCEPT ![id] = Append(@, line)]]

\* the lines appended so far by single handlers (the model's bound)
RECURSIVE SumLen(_, _)
SumLen(f, S) ==
    IF S = {} THEN 0
    ELSE LET k == CHOOSE x \in S : TRUE IN Len(f[k]) + SumLen(f, S \ {k})
Appended == SumLen(appended, Ids)
CanAppend(n) ==
    (IF Appended >= LogCap THEN Appended - LogCap ELSE Appended) + n <= MaxAppends

(***************************************************************************)
(* Initial state: module scope of run-backend.sh, lines 131-135            *)
(***************************************************************************)
NoResponse == [status |-> 0, body |-> [kind |-> "none"]]
Json(status, body) == [status |-> status, body |-> body]
ErrorBody(text) == [kind |-> "error", error |-> text]

\* a request that has not arrived yet
NoCall ==
    [route |-> "none", id |-> "", pc |-> "idle", rcon |-> FALSE, session |-> "none",
     failure |-> "", sent |-> 0, players |-> [online |-> 0, max |-> 0, names |-> <<>>],
     tps |-> [null |-> TRUE, val |-> 0], process |-> <<"null">>]

InitBackend ==
    /\ loadState = "pending"
    /\ servers = <<>>
    /\ serversLoaded = FALSE
    /\ serverStates = EmptyMap
    /\ serverLogs = EmptyMap
    /\ serverSubscribers = EmptyMap
    /\ readyState = [c \in Conns |-> "NEW"]
    /\ wsServerId = [c \in Conns |-> ""]
    /\ inbox = [c \in Conns |-> <<>>]
    /\ now = 0
    /\ res = NoResponse
    /\ appended = [id \in Ids |-> <<>>]
    /\ calls = [k \in Calls |-> NoCall]

(***************************************************************************)
(* loadServersConfig().then / .catch                                       *)
(***************************************************************************)
RECURSIVE SeedStates(_, _, _)
SeedStates(data, states, i) ==
    IF i > Len(data) THEN states
    ELSE SeedStates(data,
                    IF MapHas(states, data[i].id) THEN states
                    ELSE MapSet(states, data[i].id, DefaultState), i + 1)

\* .then((data) => ...)
LoadThen(data) ==
    /\ loadState = "pending"
    /\ loadState' = "ok"
    /\ servers' = data
    /\ serversLoaded' = TRUE
    /\ serverStates' = SeedStates(data, serverStates, 1)
    /\ res' = NoResponse
    /\ UNCHANGED <<calls, serverLogs, serverSubscribers, readyState, wsServerId,
                   inbox, now, appended>>

LoadResolved == LoadThen(LoadedServers)

LoadRejected ==
    /\ loadState = "pending"
    /\ loadState' = "failed"
    /\ res' = NoResponse
    /\ UNCHANGED <<calls, servers, serversLoaded, serverStates, serverLogs,
                   serverSubscribers, readyState, wsServerId, inbox, now,
                   appended>>

\* .then or .catch, as loadServersConfig decides for the file
Load(file) ==
    IF loadServersConfig(file).ok THEN LoadThen(loadServersConfig(file).data)
    ELSE LoadRejected

(***************************************************************************)
(* HTTP routes                                                             *)
(***************************************************************************)
getServerState(id) == MapGet(serverStates, id, DefaultState)

\* restart that leaves the status "restarting" (a value of ServerStatus)
StatusAfterRestarting(action) ==
    CASE action = "stop" -> "offline"
      [] action = "restart" -> "restarting"
      [] OTHER -> "online"

StatusAfter(action) == IF action = "stop" THEN "offline" ELSE "online"

ActionLine(action) ==
    CASE action = "start" -> "[INFO] Server started"
      [] action = "stop" -> "[INFO] Server stopped"
      [] OTHER -> "[INFO] Server restarted"

\* the unloaded / unknown-id exits every /api/servers/:id route starts with
Rejected(id) == ~serversLoaded \/ getServerById(id) = NoServer

\* every rejection answered as an unknown id
RejectResponseNotFound == Json(404, ErrorBody("Server not found."))

RejectResponse ==
    IF ~serversLoaded THEN Json(500, ErrorBody("No servers configured."))
    ELSE Json(404, ErrorBody("Server not found."))

\* POST /api/servers/:id/start | stop | restart
PostAction(id, action) ==
    IF Rejected(id)
    THEN /\ res' = RejectResponse
         /\ UNCHANGED <<calls, loadState, servers, serversLoaded, serverStates,
                        serverLogs, serverSubscribers, readyState, wsServerId,
                        inbox, now, appended>>
    ELSE /\ CanAppend(1)
         /\ \E t \in now..Min(now + 1, MaxClock) :
              LET server == getServerById(id)
                  state == [status |-> StatusAfter(action),
                            lastAction |-> action,
                            lastActionAt |-> ToISOString(t)]
                  st == appendLog(LogState, server.id, ActionLine(action))
              IN  /\ now' = t
                  /\ serverStates' = MapSet(serverStates, server.id, state)
                  /\ serverLogs' = st.logs
                  /\ inbox' = st.inbox
                  /\ appended' = st.appended
                  /\ res' = Json(200, [kind |-> "state", server |-> server,
                                       state |-> state])
         /\ UNCHANGED <<calls, loadState, servers, serversLoaded, serverSubscribers,
                        readyState, wsServerId>>

\* GET /api/servers/:id/logs
GetLogs(id, rawLimit) ==
    /\ res' = IF Rejected(id) THEN RejectResponse
              ELSE LET server == getServerById(id)
                       limit == EffectiveLimit(rawLimit)
                       logs == SliceLast(MapGet(serverLogs, server.id, <<>>), limit)
                   IN  Json(200, [kind |-> "logs", logs |-> logs])
    /\ UNCHANGED <<calls, loadState, servers, serversLoaded, serverStates, serverLogs,
                   serverSubscribers, readyState, wsServerId, inbox, now,
                   appended>>

\* GET /api/servers
GetServers ==
    /\ res' = IF ~serversLoaded THEN Json(500, ErrorBody("No servers configured."))
              ELSE Json(200, [kind |-> "servers", servers |-> servers])
    /\ UNCHANGED <<calls, loadState, servers, serversLoaded, serverStates, serverLogs,
                   serverSubscribers, readyState, wsServerId, inbox, now,
                   appended>>

(***************************************************************************)
(* The file routes (/api/servers/:id/files...).  They read and write the   *)
(* server's directory and nothing of the program's state; which exit a     *)
(* request takes past the registry checks is decided by its path and by    *)
(* the file system.                                                        *)
(***************************************************************************)
FileRoutes == {"list", "read", "save", "mkdir", "rename", "delete", "upload", "download"}

\* the exits of a route past the registry checks
FileExits(route) ==
    {"invalid", "failed", "ok"}
        \cup (IF route \in {"list", "read", "download"} THEN {"wrongtype"} ELSE {})
        \cup (IF route = "upload" THEN {"missing"} ELSE {})

FailedText(route) ==
    CASE route = "list" -> "Unable to list files."
      [] route = "read" -> "Unable to read file."
      [] route = "save" -> "Unable to save file."
      [] route = "mkdir" -> "Unable to create folder."
      [] route = "rename" -> "Unable to rename entry."
      [] route = "delete" -> "Unable to delete entry."
      [] route = "upload" -> "Unable to upload file."
      [] OTHER -> "Unable to download file."

FileResponse(route, exit) ==
    CASE exit = "invalid" -> Json(400, ErrorBody("Invalid path."))
      [] exit = "missing" -> Json(400, ErrorBody("Missing upload content."))
      [] exit = "wrongtype" ->
            Json(400, ErrorBody(IF route = "list" THEN "Not a directory." ELSE "Not a file."))
      [] exit = "failed" -> Json(500, ErrorBody(FailedText(route)))
      [] OTHER -> Json(200, [kind |-> route])

FilesRoute(route, id, exit) ==
    /\ exit \in FileExits(route)
    /\ res' = IF Rejected(id) THEN RejectResponse ELSE FileResponse(route, exit)
    /\ UNCHANGED <<calls, loadState, servers, serversLoaded, serverStates, serverLogs,
                   serverSubscribers, readyState, wsServerId, inbox, now,
                   appended>>

\* a command that logs only its echo
RunCommandEchoOnly(st, id, command) == appendLog(st, id, "[CMD] " \o command)

\* the two appends of a non-empty command
RunCommand(st, id, command) ==
    appendLog(appendLog(st, id, "[CMD] " \o command),
              id, "[INFO] Executed command: " \o command)

\* POST /api/servers/:id/command
PostCommand(id, rawCommand) ==
    IF Rejected(id)
    THEN /\ res' = RejectResponse
         /\ UNCHANGED <<calls, loadState, servers, serversLoaded, serverStates,
                        serverLogs, serverSubscribers, readyState, wsServerId,
                        inbox, now, appended>>
    ELSE LET server == getServerById(id)
             command == Join(Trim(ToText(rawCommand)))
             st == IF command # "" THEN RunCommand(LogState, server.id, command)
                   ELSE LogState
         IN  /\ command # "" => CanAppend(2)
             /\ serverLogs' = st.logs
             /\ inbox' = st.inbox
             /\ appended' = st.appended
             /\ res' = Json(200, [kind |-> "ok"])
             /\ UNCHANGED <<calls, loadState, servers, serversLoaded, serverStates,
                            serverSubscribers, readyState, wsServerId, now>>

(***************************************************************************)
(* A burst of requests for one server, handled back to back before any     *)
(* other line is appended: start, stop, restart, command, start, ... until *)
(* the buffer holds LogCap lines.  It is the composition of that many      *)
(* PostAction and PostCommand steps, all within one reading of the clock.  *)
(***************************************************************************)
BurstScript == <<"start", "stop", "restart", "command">>
BurstCommand == Str(<<"say", " ", "hi">>)
BurstCycleLines ==
    Len(BurstScript) + Cardinality({i \in 1..Len(BurstScript) : BurstScript[i] = "command"})
BurstRequests == Len(BurstScript) * (LogCap \div BurstCycleLines)
BurstRequest(k) == BurstScript[((k - 1) % Len(BurstScript)) + 1]
\* the last start / stop / restart request of the burst
BurstLastAction ==
    LET K == {k \in 1..BurstRequests : BurstRequest(k) # "command"}
    IN  BurstRequest(CHOOSE k \in K : \A j \in K : j <= k)

\* requests first..last of the burst, in order (split in halves, the first
\* half evaluated before the second is entered, to keep the evaluation shallow)
RECURSIVE HandleBurst(_, _, _, _)
HandleBurst(st, id, first, last) ==
    IF first = last
    THEN IF BurstRequest(first) = "command"
         THEN RunCommand(st, id, Join(Trim(ToText(BurstCommand))))
         ELSE appendLog(st, id, ActionLine(BurstRequest(first)))
    ELSE LET mid == (first + last) \div 2
             half == HandleBurst(st, id, first, mid)
         IN  IF Len(half.appended[id]) > 0
             THEN HandleBurst(half, id, mid + 1, last)
             ELSE half

Burst(id) ==
    /\ ~Rejected(id)
    /\ Appended = 0
    /\ \E t \in now..Min(now + 1, MaxClock) :
         LET server == getServerById(id)
             action == BurstLastAction
             state == [status |-> StatusAfter(action),
                       lastAction |-> action,
                       lastActionAt |-> ToISOString(t)]
             st == HandleBurst(LogState, server.id, 1, BurstRequests)
         IN  /\ now' = t
             /\ serverStates' = MapSet(serverStates, server.id, state)
             /\ serverLogs' = st.logs
             /\ inbox' = st.inbox
             /\ appended' = st.appended
             /\ res' = IF BurstRequest(BurstRequests) = "command"
                       THEN Json(200, [kind |-> "ok"])
                       ELSE Json(200, [kind |-> "state", server |-> server,
                                       state |-> state])
    /\ UNCHANGED <<calls, loadState, servers, serversLoaded, serverSubscribers,
                   readyState, wsServerId>>

(***************************************************************************)
(* The remote console (rcon-client) as the handlers see it.  Rcon.connect  *)
(* opens a transport and authenticates over it; it resolves with the       *)
(* session or rejects.  When it rejects the caller gets no handle; a       *)
(* transport that was opened before the rejection (a failed or timed-out   *)
(* authentication) is closed or left open by the library (leaked).         *)
(***************************************************************************)
ConnectFailures == {"refused", "timeout", "auth"}

SessionAfterFailure(failure, leaked) ==
    IF failure = "refused" THEN "none"
    ELSE IF leaked THEN "open" ELSE "closed"

Throws == <<"throws">>
Null == <<"null">>
NullTps == [null |-> TRUE, val |-> 0]

\* a test of the rcon block instead of its password
HasRconBlock(server) == server.rcon.configured

\* server.rcon?.password is truthy
HasPassword(server) == server.rcon.configured /\ server.rcon.password # ""

\* a fresh state object in place of the stored one
SetStatusFresh(states, id, status) ==
    MapSet(states, id, [DefaultState EXCEPT !.status = status])

\* no assignment at all
SetStatusSkipped(states, id, status) == states

\* state.status = status, on the state object of id
SetStatus(states, id, status) ==
    MapSet(states, id, [MapGet(states, id, DefaultState) EXCEPT !.status = status])

\* the digits that start t
RECURSIVE TakeDigits(_)
TakeDigits(t) ==
    IF t # <<>> /\ DigitVal(t[1]) >= 0 THEN <<t[1]>> \o TakeDigits(Tail(t)) ELSE <<>>

Drop(t, n) == SubSeq(t, n + 1, Len(t))

\* parsePlayerList: "There are X of a max of Y players online: names"
IsNameSeparator(piece) == IsSpace(piece) \/ piece \in {",", ", "}
parsePlayerList(line) ==
    LET starts == {i \in 1..Len(line) : line[i] = "There are "}
        i == IF starts = {} THEN 0 ELSE CHOOSE j \in starts : \A m \in starts : j <= m
        x == TakeDigits(Drop(line, i))
        afterX == Drop(line, i + Len(x))
        y == IF afterX # <<>> /\ afterX[1] = " of a max of "
             THEN TakeDigits(Tail(afterX)) ELSE <<>>
        afterY == Drop(afterX, 1 + Len(y))
        matched == /\ i > 0 /\ x # <<>> /\ y # <<>>
                   /\ afterY # <<>> /\ afterY[1] \in {" players online:", " players online"}
    IN  IF ~matched THEN [online |-> 0, max |-> 0, names |-> <<>>]
        ELSE [online |-> DecimalVal(x), max |-> DecimalVal(y),
              names |-> SelectSeq(Tail(afterY), LAMBDA piece : ~IsNameSeparator(piece))]

\* parseTps: the number after the first colon, else the number after "TPS"
\* (whole numbers only)
RECURSIVE SkipSpaces(_)
SkipSpaces(t) == IF t # <<>> /\ IsSpace(t[1]) THEN SkipSpaces(Tail(t)) ELSE t
parseTps(line) ==
    LET colons == {i \in 1..Len(line) :
                     line[i] = ":" /\ TakeDigits(SkipSpaces(Drop(line, i))) # <<>>}
        simples == {i \in 1..Len(line) :
                     line[i] = "TPS" /\ TakeDigits(SkipSpaces(Drop(line, i))) # <<>>}
        hits == IF colons # {} THEN colons ELSE simples
    IN  IF hits = {} THEN NullTps
        ELSE LET i == CHOOSE j \in hits : \A m \in hits : j <= m
             IN  [null |-> FALSE, val |-> DecimalVal(TakeDigits(SkipSpaces(Drop(line, i))))]

\* what the environment may answer
ListReplies ==
    {<<"There are ", "2", " of a max of ", "2", "0", " players online:", " ", "alice", ", ", "bob">>,
     <<"Unknown command">>, Throws}
TpsReplies == {<<"TPS", ":", " ", "2", "0">>, <<"Unknown command">>, Throws}
\* findProcessByPath and getProcessStats: a sample, or null when the process
\* is not found or /proc cannot be read
ProcessSamples == {Null, <<"pid", "cpuPercent", "memMB">>}
\* getWorldPath and getDirectorySize: the level-name of server.properties
\* ("" when it cannot be read) and the size (0 when the scan fails)
WorldScans == {[level |-> "", size |-> 0], [level |-> "lobby", size |-> 7]}

\* res.json({ server, state })
StateBodyOf(server, states) ==
    Json(200, [kind |-> "state", server |-> server,
               state |-> MapGet(states, server.id, DefaultState)])

\* the next request takes the next free slot
Arrives(k) ==
    /\ calls[k].pc = "idle"
    /\ \A earlier \in Calls : earlier < k => calls[earlier].pc # "idle"

Answered(k, route) ==
    [calls EXCEPT ![k] = [@ EXCEPT !.route = route, !.pc = "done", !.sent = @ + 1]]

(***************************************************************************)
(* GET /api/servers/:id/status with updateLiveStatus                       *)
(***************************************************************************)
\* the request arrives: up to the call of Rcon.connect, or to the response
\* when there is nothing to await
GetStatus(k, id) ==
    /\ Arrives(k)
    /\ IF Rejected(id)
       THEN /\ res' = RejectResponse
            /\ calls' = Answered(k, "status")
            /\ UNCHANGED serverStates
       ELSE LET server == getServerById(id)
            IN  /\ serverStates' = MapSet(serverStates, server.id, getServerState(server.id))
                /\ IF ~HasPassword(server)
                   THEN /\ res' = StateBodyOf(server, serverStates')
                        /\ calls' = [Answered(k, "status") EXCEPT ![k].id = server.id]
                   ELSE /\ res' = NoResponse
                        /\ calls' = [calls EXCEPT ![k] =
                              [@ EXCEPT !.route = "status", !.id = server.id, !.pc = "connect"]]
    /\ UNCHANGED <<loadState, servers, serversLoaded, serverLogs, serverSubscribers,
                   readyState, wsServerId, inbox, now, appended>>

\* Rcon.connect resolves: status online, then the finally block calls rcon.end()
StatusConnected(k) ==
    /\ calls[k].route = "status" /\ calls[k].pc = "connect"
    /\ serverStates' = SetStatus(serverStates, calls[k].id, "online")
    /\ calls' = [calls EXCEPT ![k] = [@ EXCEPT !.rcon = TRUE, !.session = "open", !.pc = "end"]]
    /\ res' = NoResponse
    /\ UNCHANGED <<loadState, servers, serversLoaded, serverLogs, serverSubscribers,
                   readyState, wsServerId, inbox, now, appended>>

\* Rcon.connect rejects: status offline, rcon is null, the state is answered
StatusConnectFailed(k, failure, leaked) ==
    /\ calls[k].route = "status" /\ calls[k].pc = "connect"
    /\ serverStates' = SetStatus(serverStates, calls[k].id, "offline")
    /\ calls' = [Answered(k, "status") EXCEPT
                    ![k].session = SessionAfterFailure(failure, leaked),
                    ![k].failure = failure]
    /\ res' = StateBodyOf(getServerById(calls[k].id), serverStates')
    /\ UNCHANGED <<loadState, servers, serversLoaded, serverLogs, serverSubscribers,
                   readyState, wsServerId, inbox, now, appended>>

\* a handler that returns without res.json
StatusEndedSilent(k) ==
    /\ calls[k].route = "status" /\ calls[k].pc = "end"
    /\ calls' = [calls EXCEPT ![k] = [@ EXCEPT !.session = "closed", !.pc = "done"]]
    /\ res' = NoResponse
    /\ UNCHANGED <<loadState, servers, serversLoaded, serverStates, serverLogs,
                   serverSubscribers, readyState, wsServerId, inbox, now, appended>>

\* rcon.end() settles (a rejection is ignored): the state is answered
StatusEnded(k) ==
    /\ calls[k].route = "status" /\ calls[k].pc = "end"
    /\ calls' = [Answered(k, "status") EXCEPT ![k].session = "closed"]
    /\ res' = StateBodyOf(getServerById(calls[k].id), serverStates)
    /\ UNCHANGED <<loadState, servers, serversLoaded, serverStates, serverLogs,
                   serverSubscribers, readyState, wsServerId, inbox, now, appended>>

(***************************************************************************)
(* GET /api/servers/:id/stats                                              *)
(***************************************************************************)
\* the stats handler has answered and its finally block awaits rcon.end();
\* players, tps and processStats are out of scope
Responded(k) ==
    [calls EXCEPT ![k] = [@ EXCEPT !.pc = "end", !.sent = @ + 1,
                                   !.players = NoCall.players, !.tps = NoCall.tps,
                                   !.process = NoCall.process]]

StatsError == Json(500, ErrorBody("Unable to fetch server stats."))

GetStats(k, id) ==
    /\ Arrives(k)
    /\ IF Rejected(id)
       THEN /\ res' = RejectResponse
            /\ calls' = Answered(k, "stats")
       ELSE LET server == getServerById(id)
            IN  IF ~HasPassword(server)
                THEN /\ res' = Json(400, ErrorBody("RCON not configured."))
                     /\ calls' = [Answered(k, "stats") EXCEPT ![k].id = server.id]
                ELSE /\ res' = NoResponse
                     /\ calls' = [calls EXCEPT ![k] =
                           [@ EXCEPT !.route = "stats", !.id = server.id, !.pc = "connect"]]
    /\ UNCHANGED <<loadState, servers, serversLoaded, serverStates, serverLogs,
                   serverSubscribers, readyState, wsServerId, inbox, now, appended>>

\* Rcon.connect resolves: rcon.send("list") is awaited
StatsConnected(k) ==
    /\ calls[k].route = "stats" /\ calls[k].pc = "connect"
    /\ calls' = [calls EXCEPT ![k] = [@ EXCEPT !.rcon = TRUE, !.session = "open", !.pc = "list"]]
    /\ res' = NoResponse
    /\ UNCHANGED <<loadState, servers, serversLoaded, serverStates, serverLogs,
                   serverSubscribers, readyState, wsServerId, inbox, now, appended>>

\* Rcon.connect rejects: the catch block, and a finally block with rcon null
StatsConnectFailed(k, failure, leaked) ==
    /\ calls[k].route = "stats" /\ calls[k].pc = "connect"
    /\ serverStates' = SetStatus(serverStates, calls[k].id, "offline")
    /\ calls' = [Answered(k, "stats") EXCEPT
                    ![k].session = SessionAfterFailure(failure, leaked),
                    ![k].failure = failure]
    /\ res' = StatsError
    /\ UNCHANGED <<loadState, servers, serversLoaded, serverLogs, serverSubscribers,
                   readyState, wsServerId, inbox, now, appended>>

\* rcon.send("list") settles: the players are parsed and rcon.send("tps") is
\* awaited, or (a rejection) the catch block answers and finally calls rcon.end()
StatsList(k, reply) ==
    /\ calls[k].route = "stats" /\ calls[k].pc = "list"
    /\ IF reply = Throws
       THEN /\ serverStates' = SetStatus(serverStates, calls[k].id, "offline")
            /\ calls' = Responded(k)
            /\ res' = StatsError
       ELSE /\ calls' = [calls EXCEPT ![k] =
                  [@ EXCEPT !.players = parsePlayerList(reply), !.pc = "tps"]]
            /\ res' = NoResponse
            /\ UNCHANGED serverStates
    /\ UNCHANGED <<loadState, servers, serversLoaded, serverLogs, serverSubscribers,
                   readyState, wsServerId, inbox, now, appended>>

\* rcon.send("tps") settles (a rejection makes tps null), getHostStats, and
\* findProcessByPath is awaited
StatsTps(k, reply) ==
    /\ calls[k].route = "stats" /\ calls[k].pc = "tps"
    /\ calls' = [calls EXCEPT ![k] =
          [@ EXCEPT !.tps = IF reply = Throws THEN NullTps ELSE parseTps(reply),
                    !.pc = "process"]]
    /\ res' = NoResponse
    /\ UNCHANGED <<loadState, servers, serversLoaded, serverStates, serverLogs,
                   serverSubscribers, readyState, wsServerId, inbox, now, appended>>

\* findProcessByPath and getProcessStats settle; getWorldPath is awaited
StatsProcess(k, sample) ==
    /\ calls[k].route = "stats" /\ calls[k].pc = "process"
    /\ calls' = [calls EXCEPT ![k] = [@ EXCEPT !.process = sample, !.pc = "world"]]
    /\ res' = NoResponse
    /\ UNCHANGED <<loadState, servers, serversLoaded, serverStates, serverLogs,
                   serverSubscribers, readyState, wsServerId, inbox, now, appended>>

\* getWorldPath and getDirectorySize settle: status online, the snapshot is
\* answered, and the finally block calls rcon.end()
StatsWorld(k, scan) ==
    /\ calls[k].route = "stats" /\ calls[k].pc = "world"
    /\ \E t \in now..Min(now + 1, MaxClock) :
         LET server == getServerById(calls[k].id)
             worldName == IF scan.level = "" THEN "world" ELSE scan.level
         IN  /\ now' = t
             /\ serverStates' = SetStatus(serverStates, server.id, "online")
             /\ res' = Json(200, [kind |-> "stats",
                                  status |-> serverStates'[server.id].status,
                                  players |-> calls[k].players,
                                  tps |-> calls[k].tps,
                                  process |-> calls[k].process,
                                  world |-> [path |-> server.path \o "/" \o worldName,
                                             sizeBytes |-> scan.size],
                                  timestamp |-> ToISOString(t)])
    /\ calls' = Responded(k)
    /\ UNCHANGED <<loadState, servers, serversLoaded, serverLogs, serverSubscribers,
                   readyState, wsServerId, inbox, appended>>

\* rcon.end() settles (a rejection is ignored): the handler is finished
StatsEnded(k) ==
    /\ calls[k].route = "stats" /\ calls[k].pc = "end"
    /\ calls' = [calls EXCEPT ![k] = [@ EXCEPT !.session = "closed", !.pc = "done"]]
    /\ res' = NoResponse
    /\ UNCHANGED <<loadState, servers, serversLoaded, serverStates, serverLogs,
                   serverSubscribers, readyState, wsServerId, inbox, now, appended>>

(***************************************************************************)
(* Live console: wss.on("connection"), ws.on("message"), ws.on("close")    *)
(***************************************************************************)
\* the number of subscribe messages answered so far (the model's bound)
Snapshots(c) == {i \in 1..Len(inbox[c]) : inbox[c][i].msg.type = "logs"}
RECURSIVE SumSnapshots(_)
SumSnapshots(S) ==
    IF S = {} THEN 0
    ELSE LET c == CHOOSE x \in S : TRUE
         IN  Cardinality(Snapshots(c)) + SumSnapshots(S \ {c})
CanSubscribe == SumSnapshots(Conns) < MaxSubscribes

\* wss.on("connection"): the next connection object comes into being
WsConnection(c) ==
    /\ readyState[c] = "NEW"
    /\ \A earlier \in Conns : earlier < c => readyState[earlier] # "NEW"
    /\ readyState' = [readyState EXCEPT ![c] = "OPEN"]
    /\ res' = NoResponse
    /\ UNCHANGED <<calls, loadState, servers, serversLoaded, serverStates, serverLogs,
                   serverSubscribers, wsServerId, inbox, now, appended>>

\* the subscribe handler without its add(ws)
AddSubscriberSetOnly(subs, serverId, c) ==
    MapSet(subs, serverId, MapGet(subs, serverId, {}))

\* serverSubscribers after the subscribe handler's has / set / add
AddSubscriber(subs, serverId, c) ==
    MapSet(subs, serverId, MapGet(subs, serverId, {}) \cup {c})

\* { type: "subscribe", serverId, limit }
WsSubscribe(c, rawServerId, rawLimit) ==
    /\ readyState[c] = "OPEN"
    /\ LET serverId == Join(Trim(ToText(rawServerId)))
       IN  IF serverId = ""
           THEN UNCHANGED <<wsServerId, serverSubscribers, inbox>>
           ELSE LET limit == EffectiveLimit(rawLimit)
                    logs == SliceLast(MapGet(serverLogs, serverId, <<>>), limit)
                IN  /\ CanSubscribe
                    /\ wsServerId' = [wsServerId EXCEPT ![c] = serverId]
                    /\ serverSubscribers' = AddSubscriber(serverSubscribers, serverId, c)
                    /\ inbox' = [inbox EXCEPT ![c] =
                           Append(@, LogsMsg(logs, serverId, Len(appended[serverId])))]
    /\ res' = NoResponse
    /\ UNCHANGED <<calls, loadState, servers, serversLoaded, serverStates, serverLogs,
                   readyState, now, appended>>

\* { type: "command", command }
WsCommand(c, rawCommand) ==
    /\ readyState[c] = "OPEN"
    /\ LET serverId == wsServerId[c]
           command == Join(Trim(ToText(rawCommand)))
           st == IF serverId # "" /\ command # ""
                 THEN RunCommand(LogState, serverId, command)
                 ELSE LogState
       IN  /\ (serverId # "" /\ command # "") => CanAppend(2)
           /\ serverLogs' = st.logs
           /\ inbox' = st.inbox
           /\ appended' = st.appended
    /\ res' = NoResponse
    /\ UNCHANGED <<calls, loadState, servers, serversLoaded, serverStates,
                   serverSubscribers, readyState, wsServerId, now>>

\* serverSubscribers.get(serverId)?.delete(ws)
DeleteSubscriber(subs, serverId, c) ==
    IF MapHas(subs, serverId) THEN MapSet(subs, serverId, subs[serverId] \ {c})
    ELSE subs

\* ws.on("close")
WsClose(c) ==
    /\ readyState[c] = "OPEN"
    /\ readyState' = [readyState EXCEPT ![c] = "CLOSED"]
    /\ serverSubscribers' =
          IF wsServerId[c] = "" THEN serverSubscribers
          ELSE DeleteSubscriber(serverSubscribers, wsServerId[c], c)
    /\ inbox' = [inbox EXCEPT ![c] = <<>>]
    /\ res' = NoResponse
    /\ UNCHANGED <<calls, loadState, servers, serversLoaded, serverStates, serverLogs,
                   wsServerId, now, appended>>

(***************************************************************************)
(* Paths: normalizeRelativePath, resolveServerPath, toPosixPath and the    *)
(* node:path functions they call (POSIX).  A path text has one character   *)
(* per piece; a resolved path is the sequence of its segment names.        *)
(***************************************************************************)
\* the characters of the registry's path strings
PathText(path) ==
    CASE path = "/srv/a" -> <<"/", "s", "r", "v", "/", "a">>
      [] path = "/srv/b" -> <<"/", "s", "r", "v", "/", "b">>
      [] OTHER -> <<>>

\* inputPath.replace(/\\/g, "/")
SlashesOnly(t) == [i \in 1..Len(t) |-> IF t[i] = "\\" THEN "/" ELSE t[i]]

\* .replace(/^\/+/, "")
RECURSIVE StripLeadingSlashes(_)
StripLeadingSlashes(t) ==
    IF t # <<>> /\ t[1] = "/" THEN StripLeadingSlashes(Tail(t)) ELSE t

\* .replace(/\/+$/, "")
RECURSIVE StripTrailingSlashes(_)
StripTrailingSlashes(t) ==
    IF t # <<>> /\ t[Len(t)] = "/" THEN StripTrailingSlashes(SubSeq(t, 1, Len(t) - 1))
    ELSE t

normalizeRelativePath(inputPath) == StripLeadingSlashes(SlashesOnly(inputPath))

\* the pieces between the "/" of a text
RECURSIVE Segments(_)
Segments(t) ==
    LET cuts == {i \in 1..Len(t) : t[i] = "/"}
    IN  IF cuts = {} THEN <<t>>
        ELSE LET cut == CHOOSE i \in cuts : \A j \in cuts : i <= j
             IN  <<SubSeq(t, 1, cut - 1)>> \o Segments(SubSeq(t, cut + 1, Len(t)))

\* node:path normalizeString: "" and "." are skipped, ".." drops the last
\* name and stays at "/"
RECURSIVE Walk(_, _)
Walk(names, segments) ==
    IF segments = <<>> THEN names
    ELSE LET segment == Head(segments)
         IN  Walk(IF segment = <<>> \/ segment = <<".">> THEN names
                  ELSE IF segment = <<".", ".">>
                  THEN SubSeq(names, 1, Max(Len(names) - 1, 0))
                  ELSE Append(names, segment),
                  Tail(segments))

\* path.resolve(from, to) for an absolute from: an absolute to replaces it
PathResolve(from, to) ==
    IF to # <<>> /\ to[1] = "/" THEN Walk(<<>>, Segments(to))
    ELSE Walk(from, Segments(to))

\* path.relative(from, to) of two resolved paths, as segments
PathRelative(from, to) ==
    LET same == {n \in 0..Min(Len(from), Len(to)) : SubSeq(from, 1, n) = SubSeq(to, 1, n)}
        common == CHOOSE n \in same : \A m \in same : m <= n
    IN  [i \in 1..(Len(from) - common) |-> <<".", ".">>] \o SubSeq(to, common + 1, Len(to))

\* relative.startsWith(".."), on the text of the first segment
StartsWithDotDot(relative) ==
    /\ relative # <<>>
    /\ Len(relative[1]) >= 2
    /\ relative[1][1] = "." /\ relative[1][2] = "."

\* path.isAbsolute(relative): the text begins with "/"
PathIsAbsolute(relative) == relative # <<>> /\ relative[1] = <<>>

\* path.dirname, path.basename of a resolved path
PathDirname(full) == SubSeq(full, 1, Max(Len(full) - 1, 0))
PathBasename(full) == IF full = <<>> THEN <<>> ELSE full[Len(full)]

\* path.resolve(server.path)
RootOf(server) == PathResolve(<<>>, PathText(server.path))

\* resolveServerPath without its check
resolveServerPathUnchecked(server, relPath) ==
    LET root == RootOf(server)
        safeRel == normalizeRelativePath(relPath)
    IN  [ok |-> TRUE, root |-> root, full |-> PathResolve(root, safeRel), rel |-> safeRel]

\* resolveServerPath: not ok is the thrown Error("Invalid path")
resolveServerPath(server, relPath) ==
    LET root == RootOf(server)
        safeRel == normalizeRelativePath(relPath)
        full == PathResolve(root, safeRel)
        relative == PathRelative(root, full)
    IN  IF StartsWithDotDot(relative) \/ PathIsAbsolute(relative)
        THEN [ok |-> FALSE, root |-> root, full |-> <<>>, rel |-> safeRel]
        ELSE [ok |-> TRUE, root |-> root, full |-> full, rel |-> safeRel]

toPosixPath(base, name) ==
    IF base = <<>> THEN name ELSE StripTrailingSlashes(base) \o <<"/">> \o name

(***************************************************************************)
(* The file system under node:fs/promises.  A call fails for the reasons   *)
(* the tree gives (ENOENT, ENOTDIR, EEXIST, EISDIR, ENOTEMPTY, EINVAL).    *)
(***************************************************************************)
DirNode == [type |-> "dir", content |-> <<>>]
FileNode(content) == [type |-> "file", content |-> content]

Exists(d, p) == p \in DOMAIN d
IsDir(d, p) == p \in DOMAIN d /\ d[p].type = "dir"
IsFile(d, p) == p \in DOMAIN d /\ d[p].type = "file"
IsPrefix(p, q) == Len(p) <= Len(q) /\ SubSeq(q, 1, Len(p)) = p
Prefixes(p) == {SubSeq(p, 1, n) : n \in 0..Len(p)}
Subtree(d, p) == {q \in DOMAIN d : IsPrefix(p, q)}
Children(d, p) == {q \in DOMAIN d : Len(q) = Len(p) + 1 /\ IsPrefix(p, q)}
Without(d, paths) == [q \in DOMAIN d \ paths |-> d[q]]

\* the directories of the servers, empty
EmptyDisk ==
    [p \in {<<>>, <<<<"s", "r", "v">>>>, <<<<"s", "r", "v">>, <<"a">>>>,
            <<<<"s", "r", "v">>, <<"b">>>>} |-> DirNode]

\* one fs call: its name and its path arguments
FsCall(op, path, to) == [op |-> op, path |-> path, to |-> to]

\* fs.mkdir(p, { recursive: true })
MkdirOk(d, p) == \A q \in Prefixes(p) : ~IsFile(d, q)
Mkdir(d, p) ==
    IF MkdirOk(d, p) THEN [q \in DOMAIN d \cup Prefixes(p) |-> IF q \in DOMAIN d THEN d[q] ELSE DirNode]
    ELSE d

\* fs.writeFile(p, content)
WriteFileOk(d, p) == p # <<>> /\ ~IsDir(d, p) /\ IsDir(d, PathDirname(p))
WriteFile(d, p, content) == IF WriteFileOk(d, p) THEN MapSet(d, p, FileNode(content)) ELSE d

\* fs.rename(from, to)
RenameOk(d, from, to) ==
    /\ Exists(d, from)
    /\ from # <<>> /\ to # <<>>
    /\ IsDir(d, PathDirname(to))
    /\ from = to \/ ~IsPrefix(from, to)
    /\ IsDir(d, from) => (~IsFile(d, to) /\ (from = to \/ Children(d, to) = {}))
    /\ IsFile(d, from) => ~IsDir(d, to)
Rename(d, from, to) ==
    IF ~RenameOk(d, from, to) \/ from = to THEN d
    ELSE LET moved == Subtree(d, from)
             kept == (DOMAIN d \ moved) \ Subtree(d, to)
             landed == {to \o SubSeq(q, Len(from) + 1, Len(q)) : q \in moved}
         IN  [q \in kept \cup landed |->
                 IF q \in kept THEN d[q]
                 ELSE d[from \o SubSeq(q, Len(to) + 1, Len(q))]]

\* fs.rm(p, { recursive: true, force: true })
Rm(d, p) == Without(d, Subtree(d, p))

\* a set as a sequence, in the order readdir returns it
RECURSIVE InOrder(_)
InOrder(S) ==
    IF S = {} THEN <<>>
    ELSE LET x == CHOOSE y \in S : TRUE IN <<x>> \o InOrder(S \ {x})

(***************************************************************************)
(* File routes on the disk (/api/servers/:id/files...): one action per     *)
(* handler, the fs calls of a handler in the order it awaits them.         *)
(***************************************************************************)
\* req.query.path and the JSON body of a request
NoBody ==
    [path |-> Absent, content |-> Absent, from |-> Absent, to |-> Absent,
     name |-> Absent, contentBase64 |-> Absent]
HttpRequest(queryPath, body) == [query |-> [path |-> queryPath], body |-> body]

\* the record of the last file request: its route, id, the relative paths it
\* gave to resolveServerPath and the fs calls it made
NoFsCalls == [route |-> "none", id |-> "", rels |-> <<>>, ops |-> <<>>]
FsLog(route, id, rels, ops) == [route |-> route, id |-> id, rels |-> rels, ops |-> ops]

\* what a handler does past resolveServerPath
Outcome(response, d, ops) == [res |-> response, disk |-> d, ops |-> ops]
Unable(route, d, ops) == Outcome(Json(500, ErrorBody(FailedText(route))), d, ops)
OkTrue == Json(200, [kind |-> "ok"])

\* Buffer.from(contentBase64, "base64") on the uploads of the model
Base64Decode(t) ==
    CASE t = <<"eA==">> -> <<"x">>
      [] t = <<"eQ==">> -> <<"y">>
      [] OTHER -> <<>>

\* the registry checks, resolveServerPath on every path, then the handler
FileRoute(route, id, rels, outcome) ==
    /\ IF Rejected(id)
       THEN /\ res' = RejectResponse
            /\ disk' = disk
            /\ fsCalls' = FsLog(route, id, <<>>, <<>>)
       ELSE IF \E i \in 1..Len(rels) : ~resolveServerPath(getServerById(id), rels[i]).ok
       THEN /\ res' = Json(400, ErrorBody("Invalid path."))
            /\ disk' = disk
            /\ fsCalls' = FsLog(route, id, rels, <<>>)
       ELSE /\ res' = outcome.res
            /\ disk' = outcome.disk
            /\ fsCalls' = FsLog(route, id, rels, outcome.ops)
    /\ UNCHANGED <<calls, loadState, servers, serversLoaded, serverStates, serverLogs,
                   serverSubscribers, readyState, wsServerId, inbox, now,
                   appended>>

\* GET /api/servers/:id/files
ListOutcome(resolved) ==
    LET full == resolved.full
        entries == InOrder(Children(disk, full))
        payload == [i \in 1..Len(entries) |->
                       [name |-> PathBasename(entries[i]),
                        path |-> toPosixPath(resolved.rel, PathBasename(entries[i])),
                        type |-> disk[entries[i]].type,
                        size |-> Len(disk[entries[i]].content)]]
        files == SelectSeq(entries, LAMBDA q : IsFile(disk, q))
        stats == [i \in 1..Len(files) |-> FsCall("stat", files[i], <<>>)]
    IN  IF ~Exists(disk, full)
        THEN Unable("list", disk, <<FsCall("stat", full, <<>>)>>)
        ELSE IF ~IsDir(disk, full)
        THEN Outcome(Json(400, ErrorBody("Not a directory.")), disk,
                     <<FsCall("stat", full, <<>>)>>)
        ELSE Outcome(Json(200, [kind |-> "list", path |-> resolved.rel,
                                entries |-> payload]),
                     disk,
                     <<FsCall("stat", full, <<>>), FsCall("readdir", full, <<>>)>> \o stats)

ListFiles(id, req) ==
    LET relPath == ToText(req.query.path)
    IN  FileRoute("list", id, <<relPath>>,
                  ListOutcome(resolveServerPath(getServerById(id), relPath)))

\* GET /api/servers/:id/files/content and .../files/download
ReadOutcome(route, resolved) ==
    LET full == resolved.full
    IN  IF ~Exists(disk, full)
        THEN Unable(route, disk, <<FsCall("stat", full, <<>>)>>)
        ELSE IF ~IsFile(disk, full)
        THEN Outcome(Json(400, ErrorBody("Not a file.")), disk,
                     <<FsCall("stat", full, <<>>)>>)
        ELSE Outcome(Json(200, [kind |-> route, path |-> resolved.rel,
                                name |-> PathBasename(full),
                                content |-> disk[full].content]),
                     disk,
                     <<FsCall("stat", full, <<>>), FsCall("readFile", full, <<>>)>>)

ReadContent(id, req) ==
    LET relPath == ToText(req.query.path)
    IN  FileRoute("read", id, <<relPath>>,
                  ReadOutcome("read", resolveServerPath(getServerById(id), relPath)))

DownloadFile(id, req) ==
    LET relPath == ToText(req.query.path)
    IN  FileRoute("download", id, <<relPath>>,
                  ReadOutcome("download", resolveServerPath(getServerById(id), relPath)))

\* mkdir(path.dirname(full)), then writeFile(full, content)
WriteOutcome(route, resolved, content) ==
    LET full == resolved.full
        dirPath == PathDirname(full)
        made == Mkdir(disk, dirPath)
    IN  IF ~MkdirOk(disk, dirPath)
        THEN Unable(route, disk, <<FsCall("mkdir", dirPath, <<>>)>>)
        ELSE IF ~WriteFileOk(made, full)
        THEN Unable(route, made,
                    <<FsCall("mkdir", dirPath, <<>>), FsCall("writeFile", full, <<>>)>>)
        ELSE Outcome(OkTrue, WriteFile(made, full, content),
                     <<FsCall("mkdir", dirPath, <<>>), FsCall("writeFile", full, <<>>)>>)

\* POST /api/servers/:id/files/content
SaveContent(id, req) ==
    LET relPath == ToText(req.query.path)
        content == ToText(req.body.content)
    IN  FileRoute("save", id, <<relPath>>,
                  WriteOutcome("save", resolveServerPath(getServerById(id), relPath),
                               content))

\* POST /api/servers/:id/files/dir
MkdirOutcome(resolved) ==
    IF MkdirOk(disk, resolved.full)
    THEN Outcome(OkTrue, Mkdir(disk, resolved.full),
                 <<FsCall("mkdir", resolved.full, <<>>)>>)
    ELSE Unable("mkdir", disk, <<FsCall("mkdir", resolved.full, <<>>)>>)

MakeDir(id, req) ==
    LET relPath == ToText(req.query.path)
    IN  FileRoute("mkdir", id, <<relPath>>,
                  MkdirOutcome(resolveServerPath(getServerById(id), relPath)))

\* POST /api/servers/:id/files/rename
RenameOutcome(fromResolved, toResolved) ==
    LET call == FsCall("rename", fromResolved.full, toResolved.full)
    IN  IF RenameOk(disk, fromResolved.full, toResolved.full)
        THEN Outcome(OkTrue, Rename(disk, fromResolved.full, toResolved.full), <<call>>)
        ELSE Unable("rename", disk, <<call>>)

RenameEntry(id, req) ==
    LET fromPath == ToText(req.body.from)
        toPath == ToText(req.body.to)
    IN  FileRoute("rename", id, <<fromPath, toPath>>,
                  RenameOutcome(resolveServerPath(getServerById(id), fromPath),
                                resolveServerPath(getServerById(id), toPath)))

\* DELETE /api/servers/:id/files
DeleteOutcome(resolved) ==
    Outcome(OkTrue, Rm(disk, resolved.full), <<FsCall("rm", resolved.full, <<>>)>>)

DeleteEntry(id, req) ==
    LET relPath == ToText(req.query.path)
    IN  FileRoute("delete", id, <<relPath>>,
                  DeleteOutcome(resolveServerPath(getServerById(id), relPath)))

\* POST /api/servers/:id/files/upload
UploadFile(id, req) ==
    LET basePath == ToText(req.body.path)
        name == ToText(req.body.name)
        contentBase64 == ToText(req.body.contentBase64)
        relPath == toPosixPath(basePath, name)
    IN  IF ~Rejected(id) /\ (name = <<>> \/ contentBase64 = <<>>)
        THEN /\ res' = Json(400, ErrorBody("Missing upload content."))
             /\ disk' = disk
             /\ fsCalls' = FsLog("upload", id, <<>>, <<>>)
             /\ UNCHANGED <<calls, loadState, servers, serversLoaded, serverStates,
                            serverLogs, serverSubscribers, readyState, wsServerId,
                            inbox, now, appended>>
        ELSE FileRoute("upload", id, <<relPath>>,
                       WriteOutcome("upload",
                                    resolveServerPath(getServerById(id), relPath),
                                    Base64Decode(contentBase64)))

(***************************************************************************)
(* FileService (src/frontend/src/app/services/file.service.ts): the        *)
(* request each method issues.  HttpClient puts `params` in the query      *)
(* string and the second argument of post() in the JSON body.              *)
(***************************************************************************)
FileService_list(serverId, path) ==
    [route |-> "list", id |-> serverId, req |-> HttpRequest(Str(path), NoBody)]
FileService_read(serverId, path) ==
    [route |-> "read", id |-> serverId, req |-> HttpRequest(Str(path), NoBody)]
FileService_save(serverId, path, content) ==
    [route |-> "save", id |-> serverId,
     req |-> HttpRequest(Absent, [NoBody EXCEPT !.path = Str(path),
                                                !.content = Str(content)])]
FileService_createFolder(serverId, path) ==
    [route |-> "mkdir", id |-> serverId,
     req |-> HttpRequest(Absent, [NoBody EXCEPT !.path = Str(path)])]
FileService_rename(serverId, from, to) ==
    [route |-> "rename", id |-> serverId,
     req |-> HttpRequest(Absent, [NoBody EXCEPT !.from = Str(from), !.to = Str(to)])]
FileService_remove(serverId, path) ==
    [route |-> "delete", id |-> serverId, req |-> HttpRequest(Str(path), NoBody)]
FileService_upload(serverId, path, name, contentBase64) ==
    [route |-> "upload", id |-> serverId,
     req |-> HttpRequest(Absent, [NoBody EXCEPT !.path = Str(path), !.name = Str(name),
                                                !.contentBase64 = Str(contentBase64)])]
FileService_download(serverId, path) ==
    [route |-> "download", id |-> serverId, req |-> HttpRequest(Str(path), NoBody)]

(***************************************************************************)
(* ws.on("message") from the raw payload: JSON.parse, the type test and    *)
(* the dispatch to the subscribe and command branches                      *)
(***************************************************************************)
\* the fields the handler reads of the parsed value; a value that is not an
\* object, or a field that is missing or null, reads as Absent
Data(type, serverId, limit, command) ==
    [type |-> type, serverId |-> serverId, limit |-> limit, command |-> command]
NoData == Data(Absent, Absent, Absent, Absent)
Parsed(data) == [ok |-> TRUE, data |-> data]
SyntaxError == [ok |-> FALSE, data |-> NoData]

\* JSON.parse(raw.toString()) on the payloads of the model
JsonParse(raw) ==
    CASE raw \in {"", "{", "subscribe"} -> SyntaxError
      [] raw \in {"null", "42", "\"subscribe\"", "[]", "{}"} -> Parsed(NoData)
      [] raw = "{\"serverId\":\"s1\"}" ->
            Parsed(Data(Absent, Str(<<"s1">>), Absent, Absent))
      [] raw = "{\"type\":\"\",\"serverId\":\"s1\"}" ->
            Parsed(Data(Str(<<>>), Str(<<"s1">>), Absent, Absent))
      [] raw = "{\"type\":0,\"command\":\"say hi\"}" ->
            Parsed(Data(Num(0), Absent, Absent, Str(<<"say", " ", "hi">>)))
      [] raw = "{\"type\":\"ping\"}" ->
            Parsed(Data(Str(<<"ping">>), Absent, Absent, Absent))
      [] raw = "{\"type\":\"subscribe\",\"serverId\":\"s1\"}" ->
            Parsed(Data(Str(<<"subscribe">>), Str(<<"s1">>), Absent, Absent))
      [] raw = "{\"type\":\"subscribe\",\"serverId\":\"s2\",\"limit\":2}" ->
            Parsed(Data(Str(<<"subscribe">>), Str(<<"s2">>), Num(2), Absent))
      [] raw = "{\"type\":\"command\",\"command\":\"say hi\"}" ->
            Parsed(Data(Str(<<"command">>), Absent, Absent, Str(<<"say", " ", "hi">>)))
      [] OTHER -> SyntaxError

Payloads ==
    {"", "{", "subscribe", "null", "42", "\"subscribe\"", "[]", "{}",
     "{\"serverId\":\"s1\"}", "{\"type\":\"\",\"serverId\":\"s1\"}",
     "{\"type\":0,\"command\":\"say hi\"}", "{\"type\":\"ping\"}",
     "{\"type\":\"subscribe\",\"serverId\":\"s1\"}",
     "{\"type\":\"subscribe\",\"serverId\":\"s2\",\"limit\":2}",
     "{\"type\":\"command\",\"command\":\"say hi\"}"}

\* a value in a condition: undefined, null, 0 and "" are falsy
Truthy(v) ==
    CASE v.kind = "absent" -> FALSE
      [] v.kind = "num" -> v.num # 0
      [] OTHER -> v.text # <<>>

\* a handler that answers a message it cannot use by closing the connection
ReturnsClosing(c) ==
    /\ readyState' = [readyState EXCEPT ![c] = "CLOSED"]
    /\ serverSubscribers' =
          IF wsServerId[c] = "" THEN serverSubscribers
          ELSE DeleteSubscriber(serverSubscribers, wsServerId[c], c)
    /\ inbox' = [inbox EXCEPT ![c] = <<>>]
    /\ res' = NoResponse
    /\ UNCHANGED <<calls, loadState, servers, serversLoaded, serverStates, serverLogs,
                   wsServerId, now, appended>>

\* return: the handler ends where it stands
Returns(c) ==
    /\ res' = NoResponse
    /\ UNCHANGED <<calls, loadState, servers, serversLoaded, serverStates, serverLogs,
                   serverSubscribers, readyState, wsServerId, inbox, now,
                   appended>>

WsMessage(c, raw) ==
    LET parsed == JsonParse(raw)
        data == parsed.data
    IN  /\ readyState[c] = "OPEN"
        /\ received' = [received EXCEPT ![c] = raw]
        /\ IF ~parsed.ok THEN Returns(c)
           ELSE IF ~Truthy(data.type) THEN Returns(c)
           ELSE IF data.type = Str(<<"subscribe">>)
           THEN WsSubscribe(c, data.serverId, data.limit)
           ELSE IF data.type = Str(<<"command">>)
           THEN WsCommand(c, data.command)
           ELSE Returns(c)

(***************************************************************************)
(* The mock API interceptor (src/unnamed/part_001): lifecycle, command and *)
(* log requests, on its own serverStates and serverLogs maps.  Its         *)
(* registry is taken to list the servers the backend has loaded.           *)
(***************************************************************************)
MockLogCap == 200       \* logs.length > 200

\* mockServers.find((item) => item.id === id)
MockServer(id) == getServerById(id)

\* getServerState(id)
MockState(states, id) == MapGet(states, id, DefaultState)

\* appendLog without the splice
MockAppendLogUncapped(logs, id, line) ==
    MapSet(logs, id, Append(MapGet(logs, id, <<>>), line))

\* appendLog(id, line)
MockAppendLog(logs, id, line) ==
    LET pushed == Append(MapGet(logs, id, <<>>), line)
    IN  MapSet(logs, id,
               IF Len(pushed) > MockLogCap
               THEN SubSeq(pushed, (Len(pushed) - MockLogCap) + 1, Len(pushed))
               ELSE pushed)

MockNotFound == Json(404, ErrorBody("Server not found."))

MockActionLine(action) ==
    CASE action = "start" -> "[INFO] Server started"
      [] action = "stop" -> "[INFO] Server stopped"
      [] OTHER -> "[INFO] Server restarted"

\* POST /api/servers/:id/start | stop | restart at the instant t
MockPostAction(id, action, t) ==
    IF MockServer(id) = NoServer
    THEN /\ mockRes' = MockNotFound
         /\ UNCHANGED <<mockStates, mockLogs>>
    ELSE LET state == [status |-> IF action = "stop" THEN "offline" ELSE "online",
                       lastAction |-> action,
                       lastActionAt |-> ToISOString(t)]
         IN  /\ mockStates' = MapSet(mockStates, id, state)
             /\ mockLogs' = MockAppendLog(mockLogs, id, MockActionLine(action))
             /\ mockRes' = Json(200, [kind |-> "state", server |-> MockServer(id),
                                      state |-> state])

\* Number(url.searchParams.get('limit') ?? '50'), NaN -> 50, Math.max(1, .)
MockLimit(v) ==
    LET limitParam == IF v.kind = "absent" THEN StringToNumber(<<"5", "0">>)
                      ELSE StringToNumber(ToText(v))
    IN  IF limitParam.nan THEN 50 ELSE Max(1, limitParam.val)

\* GET /api/servers/:id/logs
MockGetLogs(id, rawLimit) ==
    /\ mockRes' = IF MockServer(id) = NoServer THEN MockNotFound
                  ELSE Json(200, [kind |-> "logs",
                                  logs |-> SliceLast(MapGet(mockLogs, id, <<>>),
                                                     MockLimit(rawLimit))])
    /\ mockStates' = IF MockServer(id) = NoServer THEN mockStates
                     ELSE MapSet(mockStates, id, MockState(mockStates, id))
    /\ UNCHANGED mockLogs

\* the two appends of a non-empty command
MockRunCommand(logs, id, command) ==
    MockAppendLog(MockAppendLog(logs, id, "[CMD] " \o command),
                  id, "[INFO] Executed command: " \o command)

\* POST /api/servers/:id/command
MockPostCommand(id, rawCommand) ==
    LET command == Join(Trim(ToText(rawCommand)))
    IN  IF MockServer(id) = NoServer
        THEN /\ mockRes' = MockNotFound
             /\ UNCHANGED <<mockStates, mockLogs>>
        ELSE /\ mockLogs' = IF command # "" THEN MockRunCommand(mockLogs, id, command)
                            ELSE mockLogs
             /\ mockStates' = MapSet(mockStates, id, MockState(mockStates, id))
             /\ mockRes' = Json(200, [kind |-> "ok"])

\* requests first..last of the burst given to the interceptor
RECURSIVE MockHandleBurst(_, _, _, _)
MockHandleBurst(logs, id, first, last) ==
    IF first = last
    THEN IF BurstRequest(first) = "command"
         THEN MockRunCommand(logs, id, Join(Trim(ToText(BurstCommand))))
         ELSE MockAppendLog(logs, id, MockActionLine(BurstRequest(first)))
    ELSE LET mid == (first + last) \div 2
             half == MockHandleBurst(logs, id, first, mid)
         IN  IF Len(half[id]) > 0
             THEN MockHandleBurst(half, id, mid + 1, last)
             ELSE half

MockBurst(id, t) ==
    LET action == BurstLastAction
        state == [status |-> IF action = "stop" THEN "offline" ELSE "online",
                  lastAction |-> action,
                  lastActionAt |-> ToISOString(t)]
    IN  /\ mockStates' = MapSet(mockStates, id, state)
        /\ mockLogs' = MockHandleBurst(mockLogs, id, 1, BurstRequests)
        /\ mockRes' = IF BurstRequest(BurstRequests) = "command"
                      THEN Json(200, [kind |-> "ok"])
                      ELSE Json(200, [kind |-> "state", server |-> MockServer(id),
                                      state |-> state])

(***************************************************************************)
(* AppStateService (src/frontend/src/app/services/app-state.service.ts):   *)
(* loadServers() and the callbacks of its request.  The k-th call holds    *)
(* token k.  timeout(3000) turns a request without a response into an      *)
(* error two seconds before the 5000 ms fallback timer is due, and both    *)
(* callbacks of the request clear that timer, so every call ends in its    *)
(* next or its error callback and the timer's own callback is not run.     *)
(***************************************************************************)
UnableToLoad == "Unable to load servers. Check mock configuration."

NewAppState == [loadToken |-> 0, servers |-> <<>>, loading |-> FALSE, error |-> "",
                statuses |-> EmptyMap]

NewLoad == [phase |-> "pending", fallbackTimer |-> TRUE, servers |-> <<>>]

\* loadServers()
LoadServers ==
    /\ Len(loads) < MaxLoads
    /\ app' = [app EXCEPT !.loadToken = @ + 1, !.loading = TRUE, !.error = ""]
    /\ loads' = Append(loads, NewLoad)

\* next: (response) => { ... }, up to the requests refreshStatuses() sends
ServersNext(token, list) ==
    /\ loads[token].phase = "pending"
    /\ app' = [app EXCEPT !.servers = list,
                          !.loading = IF app.loadToken = token THEN FALSE ELSE @,
                          !.statuses = IF list = <<>> THEN EmptyMap ELSE @]
    /\ loads' = [loads EXCEPT ![token] =
                    [phase |-> IF list = <<>> THEN "settled" ELSE "statuses",
                     fallbackTimer |-> FALSE, servers |-> list]]

\* error: () => { ... }, for an HTTP error and for the 3000 ms timeout
ServersError(token) ==
    /\ loads[token].phase = "pending"
    /\ app' = [app EXCEPT !.servers = <<>>,
                          !.loading = IF app.loadToken = token THEN FALSE ELSE @,
                          !.error = IF app.loadToken = token THEN UnableToLoad ELSE @]
    /\ loads' = [loads EXCEPT ![token] =
                    [phase |-> "settled", fallbackTimer |-> FALSE, servers |-> <<>>]]

\* forkJoin(requests).subscribe: one state per server of the list, the
\* server's answer or the fallback state
StatusesJoined(token, results) ==
    /\ loads[token].phase = "statuses"
    /\ DOMAIN results = {loads[token].servers[i] : i \in 1..Len(loads[token].servers)}
    /\ app' = [app EXCEPT !.statuses = results]
    /\ loads' = [loads EXCEPT ![token].phase = "settled"]

(***************************************************************************)
(* ConsoleSocketService (app-state.service.ts 174-330).  A WebSocket the   *)
(* service creates is paired with the backend connection that accepts it;  *)
(* what the service sends on an open socket is handled by the backend's    *)
(* message handler in the same step, what the backend sends waits in the   *)
(* connection's inbox until the socket's message event.  With useMocks the *)
(* service's requests are answered by the interceptor, which computes the  *)
(* response when the request is made and delivers it 200 ms later, so      *)
(* responses arrive in the order of the requests.  A line in the value of  *)
(* logsSubject keeps, as history, the server whose buffer it came from.    *)
(***************************************************************************)
MaxDisplay == 5000      \* private readonly maxDisplay = 5000

NewConsole == [serverId |-> "", limit |-> 50, socket |-> 0, pollingId |-> 0,
               logs |-> <<>>, attached |-> FALSE]

\* new WebSocket(url): no backend connection yet, nothing read
NewSocket == [readyState |-> "CONNECTING", conn |-> 0, read |-> 0]

Tagged(lines, id) == [i \in 1..Len(lines) |-> [src |-> id, line |-> lines[i]]]

\* socket.close()
CloseSocket(socks, j) ==
    IF j = 0 THEN socks
    ELSE [socks EXCEPT ![j].readyState = IF @ = "CLOSED" THEN "CLOSED" ELSE "CLOSING"]

\* window.clearInterval(id)
ClearInterval(ts, i) == IF i = 0 THEN ts ELSE [ts EXCEPT ![i] = "cleared"]

\* send(message): only on an open socket; socks is the state of the sockets
\* when send is called
Send(socks, message) ==
    IF console.socket # 0 /\ socks[console.socket].readyState = "OPEN"
    THEN LET c == socks[console.socket].conn
         IN  IF message.type = "subscribe"
             THEN WsSubscribe(c, message.serverId, message.limit)
             ELSE WsCommand(c, message.command)
    ELSE UNCHANGED backendVars

SubscribeMessage(serverId, limit) ==
    [type |-> "subscribe", serverId |-> Str(<<serverId>>), limit |-> Num(limit),
     command |-> Absent]
CommandMessage(trimmed) ==
    [type |-> "command", serverId |-> Absent, limit |-> Absent,
     command |-> Str(trimmed)]

\* the lines the interceptor holds, all servers together (the model's bound)
MockAppended == SumLen([id \in Ids |-> MapGet(mockLogs, id, <<>>)], Ids)

\* fetchLogs() with this.serverId and this.limit as given
FetchLogs(serverId, limit) ==
    IF serverId = "" THEN UNCHANGED <<fetches, mockVars>>
    ELSE /\ Len(fetches) < MaxFetches
         /\ MockGetLogs(serverId, Str(NatToText(limit)))
         /\ fetches' = Append(fetches, [kind |-> "logs", serverId |-> serverId,
                                        res |-> mockRes'])

\* startPolling() that leaves the previous interval running
StartPollingNoClear(base) ==
    /\ Len(timers) < MaxTimers
    /\ FetchLogs(base.serverId, base.limit)
    /\ timers' = Append(timers, "running")
    /\ console' = [base EXCEPT !.pollingId = Len(timers) + 1]

\* startPolling()
StartPolling(base) ==
    /\ Len(timers) < MaxTimers
    /\ FetchLogs(base.serverId, base.limit)
    /\ timers' = Append(ClearInterval(timers, console.pollingId), "running")
    /\ console' = [base EXCEPT !.pollingId = Len(timers) + 1]

\* disconnect(), the fields of the service being base
DisconnectFrom(base) ==
    /\ console' = [base EXCEPT !.socket = 0, !.pollingId = 0, !.attached = FALSE]
    /\ sockets' = CloseSocket(sockets, console.socket)
    /\ timers' = ClearInterval(timers, console.pollingId)
    /\ UNCHANGED <<fetches, mockVars, backendVars>>

Disconnect == DisconnectFrom(console)

\* connect(serverId, limit)
Connect(serverId, limit) ==
    LET base == [console EXCEPT !.serverId = serverId, !.limit = limit,
                                !.logs = <<>>, !.attached = (serverId # "")]
    IN  IF serverId = "" THEN DisconnectFrom(base)
        ELSE IF useMocks
        THEN /\ StartPolling(base)
             /\ UNCHANGED <<sockets, backendVars>>
        ELSE IF console.socket = 0 \/ sockets[console.socket].readyState = "CLOSED"
        THEN /\ Len(sockets) < MaxSockets
             /\ sockets' = Append(sockets, NewSocket)
             /\ console' = [base EXCEPT !.socket = Len(sockets) + 1]
             /\ UNCHANGED <<timers, fetches, mockVars, backendVars>>
        ELSE /\ console' = base
             /\ Send(sockets, SubscribeMessage(serverId, limit))
             /\ UNCHANGED <<sockets, timers, fetches, mockVars>>

\* setLimit(limit)
SetLimit(limit) ==
    /\ console' = [console EXCEPT !.limit = limit]
    /\ IF console.serverId = "" THEN UNCHANGED <<fetches, mockVars, backendVars>>
       ELSE IF useMocks
       THEN FetchLogs(console.serverId, limit) /\ UNCHANGED backendVars
       ELSE /\ Send(sockets, SubscribeMessage(console.serverId, limit))
            /\ UNCHANGED <<fetches, mockVars>>
    /\ UNCHANGED <<sockets, timers>>

\* sendCommand(command)
SendCommand(command) ==
    LET trimmed == Trim(command)
    IN  /\ IF trimmed = <<>> \/ console.serverId = ""
           THEN UNCHANGED <<fetches, mockVars, backendVars>>
           ELSE IF useMocks
           THEN /\ Len(fetches) < MaxFetches
                /\ MockAppended + 2 <= MaxAppends
                /\ MockPostCommand(console.serverId, Str(trimmed))
                /\ fetches' = Append(fetches, [kind |-> "command",
                                               serverId |-> console.serverId,
                                               res |-> mockRes'])
                /\ UNCHANGED backendVars
           ELSE /\ Send(sockets, CommandMessage(trimmed))
                /\ UNCHANGED <<fetches, mockVars>>
        /\ UNCHANGED <<console, sockets, timers>>

\* the backend accepts the connection of socket j
SocketAccepted(j, c) ==
    /\ sockets[j].readyState = "CONNECTING"
    /\ sockets[j].conn = 0
    /\ WsConnection(c)
    /\ sockets' = [sockets EXCEPT ![j].conn = c]
    /\ UNCHANGED <<console, timers, fetches, mockVars>>

\* socket.onopen
SocketOpens(j) ==
    /\ sockets[j].readyState = "CONNECTING"
    /\ sockets[j].conn # 0
    /\ sockets' = [sockets EXCEPT ![j].readyState = "OPEN"]
    /\ IF console.serverId # ""
       THEN Send(sockets', SubscribeMessage(console.serverId, console.limit))
       ELSE UNCHANGED backendVars
    /\ UNCHANGED <<console, timers, fetches, mockVars>>

\* the connection of socket j ends: refused, closed by either side, or lost
SocketCloses(j) ==
    /\ sockets[j].readyState # "CLOSED"
    /\ sockets' = [sockets EXCEPT ![j].readyState = "CLOSED"]
    /\ IF sockets[j].conn # 0 THEN WsClose(sockets[j].conn)
       ELSE UNCHANGED backendVars
    /\ UNCHANGED <<console, timers, fetches, mockVars>>

\* onMessage(event) for the next message waiting on socket j
OnMessage(j) ==
    /\ sockets[j].readyState = "OPEN"
    /\ sockets[j].read < Len(inbox[sockets[j].conn])
    /\ LET event == inbox[sockets[j].conn][sockets[j].read + 1]
           message == event.msg
       IN  console' =
              [console EXCEPT !.logs =
                  IF message.type = "logs"
                  THEN SliceLast(Tagged(message.logs, event.src), MaxDisplay)
                  ELSE IF message.type = "log"
                  THEN SliceLast(Append(@, [src |-> event.src, line |-> message.line]),
                                 MaxDisplay)
                  ELSE @]
    /\ sockets' = [sockets EXCEPT ![j].read = @ + 1]
    /\ UNCHANGED <<timers, fetches, mockVars, backendVars>>

\* the interval callback: () => this.fetchLogs()
TimerTick(i) ==
    /\ timers[i] = "running"
    /\ FetchLogs(console.serverId, console.limit)
    /\ UNCHANGED <<console, sockets, timers, backendVars>>

\* the response to the oldest request in flight reaches its callbacks
FetchResponds ==
    /\ fetches # <<>>
    /\ LET request == fetches[1]
           answered == request.res.status = 200
       IN  IF request.kind = "logs"
           THEN /\ console' =
                      [console EXCEPT !.logs =
                          IF answered
                          THEN SliceLast(Tagged(request.res.body.logs, request.serverId),
                                         MaxDisplay)
                          ELSE <<>>]
                /\ fetches' = Tail(fetches)
                /\ UNCHANGED mockVars
           ELSE /\ IF answered /\ console.serverId # ""
                   THEN /\ MockGetLogs(console.serverId, Str(NatToText(console.limit)))
                        /\ fetches' = Append(Tail(fetches),
                                             [kind |-> "logs",
                                              serverId |-> console.serverId,
                                              res |-> mockRes'])
                   ELSE fetches' = Tail(fetches) /\ UNCHANGED mockVars
                /\ UNCHANGED console
    /\ UNCHANGED <<sockets, timers, backendVars>>

(***************************************************************************)
(* Inputs and the next-state relation                                      *)
(***************************************************************************)
RawCommands == {Absent, Str(<<" ">>), Str(<<" ", "say", " ", "hi", " ">>)}
RawServerIds == {Absent, Str(<<" ", "s1", " ">>), Str(<<"s2">>), Str(<<UnknownId>>)}
RawLimits == {Absent, Str(<<>>), Str(<<"a">>), Num(0), Num(0 - 5), Num(2)}

\* the server directories as installed, no file request made yet
InitDisk ==
    /\ disk = EmptyDisk
    /\ fsCalls = NoFsCalls
    /\ overtaken = {}
    /\ received = [c \in Conns |-> ""]

InitClient ==
    /\ console = NewConsole
    /\ sockets = <<>>
    /\ timers = <<>>
    /\ fetches = <<>>
    /\ app = NewAppState
    /\ loads = <<>>

InitMock ==
    /\ mockStates = EmptyMap
    /\ mockLogs = EmptyMap
    /\ mockRes = NoResponse

Init == InitBackend /\ InitDisk /\ InitClient /\ InitMock /\ useMocks = FALSE

Next ==
    \/ Backend(LoadResolved)
    \/ Backend(LoadRejected)
    \/ Backend(\E id \in Ids, action \in Actions : PostAction(id, action))
    \/ Backend(\E id \in Ids, rawLimit \in RawLimits : GetLogs(id, rawLimit))
    \/ Backend(\E id \in Ids, rawCommand \in RawCommands : PostCommand(id, rawCommand))
    \/ Backend(\E c \in Conns : WsConnection(c))
    \/ Backend(\E c \in Conns, rawServerId \in RawServerIds, rawLimit \in RawLimits :
            WsSubscribe(c, rawServerId, rawLimit))
    \/ Backend(\E c \in Conns, rawCommand \in RawCommands : WsCommand(c, rawCommand))
    \/ Backend(\E c \in Conns : WsClose(c))

Spec == Init /\ [][Next]_vars

\* The same program with all traffic on the first configured server, after
\* or without a burst that fills its buffer.
CapIds == {ConfigIds[1]}
CapRawServerIds == {Absent, Str(<<" ", ConfigIds[1], " ">>)}

NextCap ==
    \/ Backend(LoadResolved)
    \/ Backend(\E id \in CapIds : Burst(id))
    \/ Backend(\E id \in CapIds, action \in Actions : PostAction(id, action))
    \/ Backend(\E id \in CapIds, rawLimit \in RawLimits : GetLogs(id, rawLimit))
    \/ Backend(\E id \in CapIds, rawCommand \in RawCommands : PostCommand(id, rawCommand))
    \/ Backend(\E c \in Conns : WsConnection(c))
    \/ Backend(\E c \in Conns, rawServerId \in CapRawServerIds, rawLimit \in RawLimits :
            WsSubscribe(c, rawServerId, rawLimit))
    \/ Backend(\E c \in Conns, rawCommand \in RawCommands : WsCommand(c, rawCommand))
    \/ Backend(\E c \in Conns : WsClose(c))

SpecCap == Init /\ [][NextCap]_vars

\* The same program with the status and stats routes, next to the lifecycle
\* actions and the log route.
NextRcon ==
    \/ Backend(LoadResolved)
    \/ Backend(\E id \in Ids, action \in Actions : PostAction(id, action))
    \/ Backend(\E k \in Calls, id \in Ids : GetStatus(k, id))
    \/ Backend(\E k \in Calls : StatusConnected(k))
    \/ Backend(\E k \in Calls, failure \in ConnectFailures, leaked \in BOOLEAN :
            StatusConnectFailed(k, failure, leaked))
    \/ Backend(\E k \in Calls : StatusEnded(k))
    \/ Backend(\E k \in Calls, id \in Ids : GetStats(k, id))
    \/ Backend(\E k \in Calls : StatsConnected(k))
    \/ Backend(\E k \in Calls, failure \in ConnectFailures, leaked \in BOOLEAN :
            StatsConnectFailed(k, failure, leaked))
    \/ Backend(\E k \in Calls, reply \in ListReplies : StatsList(k, reply))
    \/ Backend(\E k \in Calls, reply \in TpsReplies : StatsTps(k, reply))
    \/ Backend(\E k \in Calls, sample \in ProcessSamples : StatsProcess(k, sample))
    \/ Backend(\E k \in Calls, scan \in WorldScans : StatsWorld(k, scan))
    \/ Backend(\E k \in Calls : StatsEnded(k))

SpecRcon == Init /\ [][NextRcon]_vars

\* Every promise a handler awaits settles: Rcon.connect and rcon.send carry a
\* timeout, rcon.end and the file system calls return.
Settles(k) ==
    \/ StatusConnected(k)
    \/ \E failure \in ConnectFailures, leaked \in BOOLEAN :
          StatusConnectFailed(k, failure, leaked)
    \/ StatusEnded(k)
    \/ StatsConnected(k)
    \/ \E failure \in ConnectFailures, leaked \in BOOLEAN :
          StatsConnectFailed(k, failure, leaked)
    \/ \E reply \in ListReplies : StatsList(k, reply)
    \/ \E reply \in TpsReplies : StatsTps(k, reply)
    \/ \E sample \in ProcessSamples : StatsProcess(k, sample)
    \/ \E scan \in WorldScans : StatsWorld(k, scan)
    \/ StatsEnded(k)

SpecRconFair == SpecRcon /\ \A k \in Calls : WF_vars(Backend(Settles(k)))

\* The HTTP routes under any of the config files, the requests naming the
\* first configured id or an unknown one.
LoadIds == {ConfigIds[1], UnknownId}

Request ==
    \/ Backend(GetServers)
    \/ Backend(\E id \in LoadIds, action \in Actions : PostAction(id, action))
    \/ Backend(\E id \in LoadIds, rawLimit \in RawLimits : GetLogs(id, rawLimit))
    \/ Backend(\E id \in LoadIds, rawCommand \in RawCommands : PostCommand(id, rawCommand))
    \/ Backend(\E k \in Calls, id \in LoadIds : GetStatus(k, id))
    \/ Backend(\E k \in Calls, id \in LoadIds : GetStats(k, id))
    \/ Backend(\E route \in FileRoutes, id \in LoadIds :
            \E exit \in FileExits(route) : FilesRoute(route, id, exit))

NextLoad ==
    \/ Backend(\E file \in ConfigFiles : Load(file))
    \/ Request
    \/ Backend(\E k \in Calls : Settles(k))

SpecLoad == Init /\ [][NextLoad]_vars

\* The file routes on the disk of the first configured server: the reading
\* routes with every path text of up to MaxPathLen characters, the writing
\* routes with a few paths inside and outside the root, as plain requests
\* (path in the query string) and as the requests FileService issues.
PathAlphabet == {"/", "\\", ".", "a"}
RelPaths == UNION {[1..n -> PathAlphabet] : n \in 0..MaxPathLen}
WritePaths == {<<>>, <<"a">>, <<"a", "/", "a">>, <<".", ".", "/", "b">>}
Contents == {<<"x">>, <<"y">>}
Uploads == {<<"eA==">>}
FileIds == {ConfigIds[1], UnknownId}

ReadRequests == {HttpRequest(Str(path), NoBody) : path \in RelPaths}
SaveRequests ==
    {HttpRequest(Str(path), [NoBody EXCEPT !.content = Str(content)]) :
        path \in WritePaths, content \in Contents}
    \cup {FileService_save(ConfigIds[1], path, content).req :
             path \in WritePaths, content \in Contents}
MkdirRequests ==
    {HttpRequest(Str(path), NoBody) : path \in WritePaths}
    \cup {FileService_createFolder(ConfigIds[1], path).req : path \in WritePaths}
RenameRequests ==
    {FileService_rename(ConfigIds[1], from, to).req : from \in WritePaths, to \in WritePaths}
DeleteRequests == {FileService_remove(ConfigIds[1], path).req : path \in WritePaths}
UploadRequests ==
    {FileService_upload(ConfigIds[1], path, name, contentBase64).req :
        path \in {<<>>, <<"a">>, <<".", ".">>}, name \in {<<>>, <<"a">>},
        contentBase64 \in Uploads}

\* a step of a file route: it touches the backend and the disk
Files(step) == step /\ UNCHANGED <<overtaken, received, consoleVars, appVars, mockVars>>

NextFiles ==
    \/ Backend(LoadResolved)
    \/ Files(\E id \in FileIds, req \in ReadRequests : ListFiles(id, req))
    \/ Files(\E id \in FileIds, req \in ReadRequests : ReadContent(id, req))
    \/ Files(\E id \in FileIds, req \in ReadRequests : DownloadFile(id, req))
    \/ Files(\E id \in FileIds, req \in SaveRequests : SaveContent(id, req))
    \/ Files(\E id \in FileIds, req \in MkdirRequests : MakeDir(id, req))
    \/ Files(\E id \in FileIds, req \in RenameRequests : RenameEntry(id, req))
    \/ Files(\E id \in FileIds, req \in DeleteRequests : DeleteEntry(id, req))
    \/ Files(\E id \in FileIds, req \in UploadRequests : UploadFile(id, req))

SpecFiles == Init /\ [][NextFiles]_vars

\* The live channel from the raw payloads, next to the lifecycle actions of
\* the first configured server.
Live(step) == step /\ UNCHANGED <<diskVars, overtaken, consoleVars, appVars, mockVars>>

NextLive ==
    \/ Backend(LoadResolved)
    \/ Backend(\E id \in CapIds, action \in Actions : PostAction(id, action))
    \/ Backend(\E c \in Conns : WsConnection(c))
    \/ Live(\E c \in Conns, raw \in Payloads : WsMessage(c, raw))
    \/ Backend(\E c \in Conns : WsClose(c))

SpecLive == Init /\ [][NextLive]_vars

\* The status and stats routes next to the lifecycle actions, with the
\* calls a stop overtook on record: a call joins `overtaken` when a stop for
\* its server is handled while it is between its request and its response,
\* and leaves it on a start or restart of that server or when it is done.
InProgress(k, id) ==
    calls[k].id = id /\ calls[k].pc \notin {"idle", "end", "done"}

OvertakenAfter(id, action) ==
    IF Rejected(id) THEN overtaken
    ELSE IF action = "stop" THEN overtaken \cup {k \in Calls : InProgress(k, id)}
    ELSE overtaken \ {k \in Calls : calls[k].id = id}

Tracked(step) ==
    /\ step
    /\ overtaken' = {k \in overtaken : calls'[k].pc \notin {"end", "done"}}
    /\ UNCHANGED <<diskVars, received, consoleVars, appVars, mockVars>>

NextRace ==
    \/ Tracked(LoadResolved)
    \/ \E id \in Ids, action \in Actions :
          /\ PostAction(id, action)
          /\ overtaken' = OvertakenAfter(id, action)
          /\ UNCHANGED <<diskVars, received, consoleVars, appVars, mockVars>>
    \/ Tracked(\E k \in Calls, id \in Ids : GetStatus(k, id))
    \/ Tracked(\E k \in Calls : StatusConnected(k))
    \/ Tracked(\E k \in Calls, failure \in ConnectFailures, leaked \in BOOLEAN :
                  StatusConnectFailed(k, failure, leaked))
    \/ Tracked(\E k \in Calls : StatusEnded(k))
    \/ Tracked(\E k \in Calls, id \in Ids : GetStats(k, id))
    \/ Tracked(\E k \in Calls : StatsConnected(k))
    \/ Tracked(\E k \in Calls, failure \in ConnectFailures, leaked \in BOOLEAN :
                  StatsConnectFailed(k, failure, leaked))
    \/ Tracked(\E k \in Calls, reply \in ListReplies : StatsList(k, reply))
    \/ Tracked(\E k \in Calls, reply \in TpsReplies : StatsTps(k, reply))
    \/ Tracked(\E k \in Calls, sample \in ProcessSamples : StatsProcess(k, sample))
    \/ Tracked(\E k \in Calls, scan \in WorldScans : StatsWorld(k, scan))
    \/ Tracked(\E k \in Calls : StatsEnded(k))

SpecRace == Init /\ [][NextRace]_vars

\* The backend and the mock interceptor given the same requests, one after
\* the other, at the same instants.
QueryLimits == {Absent, Str(<<>>), Str(<<"a">>), Str(<<"0">>), Str(<<"2">>)}
MockIds == {ConfigIds[1], UnknownId}

Both(step) == step /\ UNCHANGED <<diskVars, overtaken, received, consoleVars, appVars>>

NextMock ==
    \/ Backend(LoadResolved)
    \/ Both(\E id \in MockIds, action \in Actions :
                PostAction(id, action) /\ MockPostAction(id, action, now'))
    \/ Both(\E id \in MockIds, rawLimit \in QueryLimits :
                GetLogs(id, rawLimit) /\ MockGetLogs(id, rawLimit))
    \/ Both(\E id \in MockIds, rawCommand \in RawCommands :
                PostCommand(id, rawCommand) /\ MockPostCommand(id, rawCommand))
    \/ Both(\E id \in CapIds : Burst(id) /\ MockBurst(id, now'))

SpecMock == Init /\ [][NextMock]_vars

\* AppStateService.loadServers() called again and again while earlier
\* requests are still in flight; responses arrive in any order.
ServerLists == {<<>>, <<ConfigIds[1]>>, <<ConfigIds[1], ConfigIds[2]>>}
StatusAnswers == {DefaultState,
                  [status |-> "online", lastAction |-> "start",
                   lastActionAt |-> ToISOString(0)]}
Loads == 1..MaxLoads

App(step) == step /\ UNCHANGED <<backendVars, diskVars, overtaken, received,
                                 consoleVars, mockVars>>

NextApp ==
    \/ App(LoadServers)
    \/ App(\E token \in Loads : token <= Len(loads) /\
                \E list \in ServerLists : ServersNext(token, list))
    \/ App(\E token \in Loads : token <= Len(loads) /\ ServersError(token))
    \/ App(\E token \in Loads : token <= Len(loads) /\
                \E ids \in SUBSET {ConfigIds[i] : i \in 1..Len(ConfigIds)} :
                    \E results \in [ids -> StatusAnswers] :
                        StatusesJoined(token, results))

SpecApp == Init /\ [][NextApp]_vars

\* The console service of a client build with or without mocks, the backend
\* it talks to, and lifecycle requests of other clients for the first server.
InitConsole == InitBackend /\ InitDisk /\ InitClient /\ InitMock /\ useMocks \in BOOLEAN

ConsoleIds == {"", ConfigIds[1], ConfigIds[2]}
ConsoleLimits == {1}
ConsoleCommands == {<<" ">>, <<"say">>}
Sockets == 1..MaxSockets
Timers == 1..MaxTimers

Console(step) == step /\ UNCHANGED <<diskVars, overtaken, received, appVars, useMocks>>

NextConsole ==
    \/ Backend(LoadResolved)
    \/ Backend(~useMocks /\ \E action \in Actions : PostAction(ConfigIds[1], action))
    \/ Console(\E serverId \in ConsoleIds : Connect(serverId, 50))
    \/ Console(\E limit \in ConsoleLimits : SetLimit(limit))
    \/ Console(\E command \in ConsoleCommands : SendCommand(command))
    \/ Console(Disconnect)
    \/ Console(\E j \in Sockets, c \in Conns : j <= Len(sockets) /\ SocketAccepted(j, c))
    \/ Console(\E j \in Sockets : j <= Len(sockets) /\ SocketOpens(j))
    \/ Console(\E j \in Sockets : j <= Len(sockets) /\ SocketCloses(j))
    \/ Console(\E j \in Sockets : j <= Len(sockets) /\ OnMessage(j))
    \/ Console(\E i \in Timers : i <= Len(timers) /\ TimerTick(i))
    \/ Console(FetchResponds)

SpecConsole == InitConsole /\ [][NextConsole]_vars

TypeOK ==
    /\ loadState \in {"pending", "ok", "failed"}
    /\ serversLoaded \in BOOLEAN
    /\ DOMAIN serverStates \subseteq Ids
    /\ DOMAIN serverLogs \subseteq Ids
    /\ DOMAIN serverSubscribers \subseteq Ids
    /\ \A c \in Conns : readyState[c] \in {"NEW", "OPEN", "CLOSED"}
    /\ now \in 0..MaxClock
    /\ \A k \in Calls :
          /\ calls[k].route \in {"none", "status", "stats"}
          /\ calls[k].pc \in {"idle", "connect", "list", "tps", "process", "world", "end", "done"}
          /\ calls[k].session \in {"none", "open", "closed"}
          /\ calls[k].sent \in 0..1

(***************************************************************************)
(* Vocabulary of the properties                                            *)
(***************************************************************************)
Buffer(id) == IF id \in DOMAIN serverLogs THEN serverLogs[id] ELSE <<>>

\* the last min(n, Len(lines)) elements of lines, in order
LastLines(lines, n) ==
    LET k == IF n < Len(lines) THEN n ELSE Len(lines)
    IN  [i \in 1..k |-> lines[(Len(lines) - k) + i]]

\* the server ids whose subscriber set holds connection c
MemberOf(c) == {id \in DOMAIN serverSubscribers : c \in serverSubscribers[id]}

\* positions in inbox[c] of the snapshots taken of id
SnapshotsOf(c, id) ==
    {i \in 1..Len(inbox[c]) : inbox[c][i].msg.type = "logs" /\ inbox[c][i].src = id}

\* the lines of the incremental messages of id at positions from..to of inbox[c]
RECURSIVE LogLinesOf(_, _, _, _)
LogLinesOf(c, id, from, to) ==
    IF from > to THEN <<>>
    ELSE LET m == inbox[c][from]
         IN  (IF m.msg.type = "log" /\ m.src = id THEN <<m.msg.line>> ELSE <<>>)
             \o LogLinesOf(c, id, from + 1, to)

\* the position of the answer to the most recent subscribe of c (0 if none)
LastSnapshot(c) ==
    LET S == {i \in 1..Len(inbox[c]) : inbox[c][i].msg.type = "logs"}
    IN  IF S = {} THEN 0 ELSE CHOOSE i \in S : \A j \in S : j <= i

(***************************************************************************)
(* C1: an open connection whose most recent subscribe named X has been     *)
(* sent, since the answer to that subscribe, exactly the lines appended to *)
(* X since then as {type:"log"} messages: each once, in append order.      *)
(***************************************************************************)
C1_IncrementalExact ==
    \A c \in Conns :
        (readyState[c] = "OPEN" /\ wsServerId[c] # "") =>
            LET X == wsServerId[c]
                p == LastSnapshot(c)
            IN  /\ p > 0
                /\ inbox[c][p].src = X
                /\ LogLinesOf(c, X, p + 1, Len(inbox[c]))
                     = SubSeq(appended[X], inbox[c][p].at + 1, Len(appended[X]))

\* a subscriber that has been sent two lines appended after its subscribe
C1_Witness ==
    \E c \in Conns :
        /\ readyState[c] = "OPEN" /\ wsServerId[c] # ""
        /\ Len(LogLinesOf(c, wsServerId[c], LastSnapshot(c) + 1, Len(inbox[c]))) >= 2

(***************************************************************************)
(* C2: every connection is a member of at most one server's subscriber set *)
(***************************************************************************)
C2_AtMostOneSet == \A c \in Conns : Cardinality(MemberOf(c)) <= 1

(***************************************************************************)
(* C3: a step that appends to server X sends nothing to a connection whose *)
(* most recent subscribe named another server                              *)
(***************************************************************************)
C3_OnlyCurrentSubscription ==
    [][\A X \in Ids : appended'[X] # appended[X] =>
          \A c \in Conns :
              (readyState[c] = "OPEN" /\ wsServerId[c] # X) => inbox'[c] = inbox[c]]_vars

(***************************************************************************)
(* C4: a connection whose close event has been handled is a member of no   *)
(* server's subscriber set                                                 *)
(***************************************************************************)
C4_ClosedInNoSet == \A c \in Conns : readyState[c] = "CLOSED" => MemberOf(c) = {}

(***************************************************************************)
(* C5: handling a subscribe that names server X sends the connection       *)
(* exactly one message, a {type:"logs"} snapshot holding the last          *)
(* min(limit, len) lines of X's buffer as it is in that step, in buffer    *)
(* order; the snapshot is the last thing on the wire when the handler      *)
(* returns, so every line appended to X afterwards follows it.  limit is   *)
(* the handler's limit (line 959).                                         *)
(***************************************************************************)
C5_SnapshotOnSubscribe ==
    [][\A c \in Conns, rawServerId \in RawServerIds, rawLimit \in RawLimits :
          (WsSubscribe(c, rawServerId, rawLimit) /\ Join(Trim(ToText(rawServerId))) # "") =>
              LET X == Join(Trim(ToText(rawServerId)))
                  limit == EffectiveLimit(rawLimit)
                  n == Len(inbox[c])
              IN  /\ Len(inbox'[c]) = n + 1
                  /\ SubSeq(inbox'[c], 1, n) = inbox[c]
                  /\ inbox'[c][n + 1].msg.type = "logs"
                  /\ inbox'[c][n + 1].msg.logs = LastLines(Buffer(X), limit)
                  /\ serverLogs' = serverLogs
                  /\ appended' = appended]_vars

\* a snapshot of two lines just taken of a buffer that holds more than two
C5_Witness ==
    \E c \in Conns :
        /\ readyState[c] = "OPEN"
        /\ LastSnapshot(c) > 0 /\ LastSnapshot(c) = Len(inbox[c])
        /\ LET m == inbox[c][Len(inbox[c])]
           IN  /\ Len(m.msg.logs) = 2
               /\ Len(Buffer(m.src)) > 2
               /\ m.msg.logs = LastLines(Buffer(m.src), 2)

(***************************************************************************)
(* C6: for the first subscribe of an open connection to X, the snapshot    *)
(* followed by the incremental lines of X sent up to the next subscribe to *)
(* X is one contiguous stretch of the lines appended to X: a line handled  *)
(* before the subscribe is in the snapshot (the newest one always is), a   *)
(* line handled after it is one incremental message, none is in both and   *)
(* none is missing.                                                        *)
(***************************************************************************)
C6_ExactlyOnce ==
    \A c \in Conns, X \in Ids :
        (readyState[c] = "OPEN" /\ SnapshotsOf(c, X) # {}) =>
            LET S == SnapshotsOf(c, X)
                p == CHOOSE i \in S : \A j \in S : i <= j
                later == S \ {p}
                q == IF later = {} THEN Len(inbox[c])
                     ELSE (CHOOSE i \in later : \A j \in later : i <= j) - 1
                snap == inbox[c][p]
                k == Len(snap.msg.logs)
                incr == LogLinesOf(c, X, p + 1, q)
            IN  /\ LogLinesOf(c, X, 1, p - 1) = <<>>
                /\ k <= snap.at
                /\ snap.at >= 1 => k >= 1
                /\ snap.at + Len(incr) <= Len(appended[X])
                /\ snap.msg.logs \o incr
                     = SubSeq(appended[X], (snap.at - k) + 1, snap.at + Len(incr))
                /\ later = {} => snap.at + Len(incr) = Len(appended[X])

\* one line handled before the first subscribe and one handled after it
C6_Witness ==
    \E c \in Conns, X \in Ids :
        /\ readyState[c] = "OPEN"
        /\ Cardinality(SnapshotsOf(c, X)) = 1
        /\ LET p == CHOOSE i \in SnapshotsOf(c, X) : TRUE
           IN  /\ Len(inbox[c][p].msg.logs) >= 1
               /\ Len(LogLinesOf(c, X, p + 1, Len(inbox[c]))) >= 1

(***************************************************************************)
(* C7: every server's buffer holds at most 200 lines and is the most       *)
(* recent min(n, 200) of the n lines ever appended to it, in append order  *)
(***************************************************************************)
C7_BufferIsRecentTail ==
    \A id \in Ids :
        /\ Len(Buffer(id)) <= 200
        /\ Buffer(id) = LastLines(appended[id], 200)

\* a buffer that has dropped lines
C7_Witness ==
    \E id \in Ids : Len(appended[id]) > 200 /\ Len(Buffer(id)) = 200

(***************************************************************************)
(* C8: a start, stop or restart request for a registered server sets its   *)
(* status (online, offline, online), lastAction and lastActionAt (the      *)
(* clock reading of the request), appends exactly one line, the action's,  *)
(* to that server's buffer, answers with the resulting state, and leaves   *)
(* every other server's state and buffer as they were.                     *)
(***************************************************************************)
C8_Line(action) ==
    CASE action = "start" -> "[INFO] Server started"
      [] action = "stop" -> "[INFO] Server stopped"
      [] action = "restart" -> "[INFO] Server restarted"

C8_Status(action) ==
    CASE action = "start" -> "online"
      [] action = "stop" -> "offline"
      [] action = "restart" -> "online"

C8_LifecycleAction ==
    [][\A id \in Ids, action \in Actions :
          (PostAction(id, action) /\ serversLoaded /\ getServerById(id) # NoServer) =>
              /\ id \in DOMAIN serverStates'
              /\ serverStates'[id].status = C8_Status(action)
              /\ serverStates'[id].lastAction = action
              /\ now' >= now
              /\ serverStates'[id].lastActionAt = <<"iso", now'>>
              /\ appended'[id] = Append(appended[id], C8_Line(action))
              /\ Buffer(id)' = LastLines(Append(Buffer(id), C8_Line(action)), 200)
              /\ res'.status = 200
              /\ res'.body.kind = "state"
              /\ res'.body.server.id = id
              /\ res'.body.state = serverStates'[id]
              /\ \A other \in Ids \ {id} :
                    /\ appended'[other] = appended[other]
                    /\ (other \in DOMAIN serverLogs') = (other \in DOMAIN serverLogs)
                    /\ Buffer(other)' = Buffer(other)
                    /\ (other \in DOMAIN serverStates') = (other \in DOMAIN serverStates)
                    /\ other \in DOMAIN serverStates =>
                          serverStates'[other] = serverStates[other]]_vars

\* a restart just answered, next to a server an earlier stop has left its mark on
C8_Witness ==
    \E id \in Ids, other \in Ids :
        /\ id # other
        /\ res.status = 200 /\ res.body.kind = "state" /\ res.body.server.id = id
        /\ res.body.state.lastAction = "restart"
        /\ id \in DOMAIN serverStates /\ serverStates[id].status = "online"
        /\ Buffer(id) = <<"[INFO] Server restarted">>
        /\ other \in DOMAIN serverStates /\ serverStates[other].lastAction = "stop"

(***************************************************************************)
(* C9: a command whose trimmed text is non-empty appends exactly two       *)
(* lines to the target server's buffer, "[CMD] <command>" directly         *)
(* followed by "[INFO] Executed command: <command>", and no line of        *)
(* another command ever stands between the two; a command whose trimmed    *)
(* text is empty changes no buffer and sends nothing on any connection.    *)
(***************************************************************************)
C9_Effect(id, rawCommand) ==
    LET text == Trim(ToText(rawCommand))
        pair == <<"[CMD] " \o Join(text), "[INFO] Executed command: " \o Join(text)>>
    IN  IF text = <<>>
        THEN serverLogs' = serverLogs /\ appended' = appended /\ inbox' = inbox
        ELSE /\ appended'[id] = appended[id] \o pair
             /\ Buffer(id)' = LastLines(Buffer(id) \o pair, 200)
             /\ \A other \in Ids \ {id} :
                   appended'[other] = appended[other] /\ Buffer(other)' = Buffer(other)

C9_Texts == {"say hi"}

C9_PairsIntact ==
    \A id \in Ids, text \in C9_Texts : \A i \in 1..Len(appended[id]) :
        /\ appended[id][i] = "[CMD] " \o text =>
              /\ i < Len(appended[id])
              /\ appended[id][i + 1] = "[INFO] Executed command: " \o text
        /\ appended[id][i] = "[INFO] Executed command: " \o text =>
              /\ i > 1
              /\ appended[id][i - 1] = "[CMD] " \o text

C9_CommandLines ==
    [][/\ \A id \in Ids, rawCommand \in RawCommands :
            (PostCommand(id, rawCommand) /\ serversLoaded /\ getServerById(id) # NoServer)
                => C9_Effect(id, rawCommand)
       /\ \A c \in Conns, rawCommand \in RawCommands :
            (WsCommand(c, rawCommand) /\ wsServerId[c] # "")
                => C9_Effect(wsServerId[c], rawCommand)
       /\ C9_PairsIntact']_vars

\* two commands handled one after the other on a full buffer
C9_Witness ==
    \E id \in Ids :
        /\ Len(appended[id]) > 200
        /\ SubSeq(appended[id], Len(appended[id]) - 3, Len(appended[id]))
             = <<"[CMD] say hi", "[INFO] Executed command: say hi",
                 "[CMD] say hi", "[INFO] Executed command: say hi">>
        /\ LastLines(Buffer(id), 2) = <<"[CMD] say hi", "[INFO] Executed command: say hi">>

(***************************************************************************)
(* C10: the tail of a registered server's buffer: the last min(limit, len) *)
(* lines in buffer order (limit being the route's limit, line 570), always *)
(* answered with 200, the empty sequence when the id has no buffer yet,    *)
(* and nothing but the response changes.                                   *)
(***************************************************************************)
C10_Tail ==
    [][\A id \in Ids, rawLimit \in RawLimits :
          (GetLogs(id, rawLimit) /\ serversLoaded /\ getServerById(id) # NoServer) =>
              /\ res'.status = 200
              /\ res'.body.kind = "logs"
              /\ res'.body.logs = LastLines(Buffer(id), EffectiveLimit(rawLimit))
              /\ id \notin DOMAIN serverLogs => res'.body.logs = <<>>
              /\ serverLogs' = serverLogs
              /\ UNCHANGED <<serverStates, serverSubscribers, inbox, appended>>]_vars

\* a tail of two lines of a buffer that holds more
C10_Witness ==
    /\ res.status = 200 /\ res.body.kind = "logs"
    /\ Len(res.body.logs) = 2
    /\ \E id \in Ids : Len(Buffer(id)) > 2 /\ res.body.logs = LastLines(Buffer(id), 2)

(***************************************************************************)
(* C11: the effective limit of the logs route and of subscribe is 50 when  *)
(* the limit is absent, empty or not a number, and max(1, limit) otherwise *)
(* (so 0 and -5 behave as 1): the tail answered is the last                *)
(* min(that limit, len) lines of the buffer.                               *)
(***************************************************************************)
C11_IsNumeral(t) ==
    LET digits == IF t # <<>> /\ t[1] = "-" THEN Tail(t) ELSE t
    IN  digits # <<>> /\ \A i \in 1..Len(digits) : digits[i] \in {Digits[d] : d \in 1..10}

C11_Limit(v) ==
    CASE v.kind = "absent" -> 50
      [] v.kind = "num" -> IF v.num < 1 THEN 1 ELSE v.num
      [] v.kind = "str" ->
            IF ~C11_IsNumeral(v.text) THEN 50
            ELSE IF v.text[1] = "-" \/ DecimalVal(v.text) < 1 THEN 1
                 ELSE DecimalVal(v.text)

C11_EffectiveLimit ==
    [][/\ \A id \in Ids, rawLimit \in RawLimits :
            (GetLogs(id, rawLimit) /\ serversLoaded /\ getServerById(id) # NoServer) =>
                res'.body.logs = LastLines(Buffer(id), C11_Limit(rawLimit))
       /\ \A c \in Conns, rawServerId \in RawServerIds, rawLimit \in RawLimits :
            (WsSubscribe(c, rawServerId, rawLimit) /\ Join(Trim(ToText(rawServerId))) # "") =>
                inbox'[c][Len(inbox'[c])].msg.logs
                    = LastLines(Buffer(Join(Trim(ToText(rawServerId)))), C11_Limit(rawLimit))]_vars

(***************************************************************************)
(* Vocabulary of the properties about the status and stats routes          *)
(***************************************************************************)
\* the lifecycle state of id (the default while none is stored)
StateIn(states, id) == IF id \in DOMAIN states THEN states[id] ELSE DefaultState
StateOf(id) == StateIn(serverStates, id)

\* call k sends a response in this step
Responds(k) == calls'[k].sent = calls[k].sent + 1

\* id is registered with / without a remote-console password
WithPassword(id) ==
    \E i \in 1..Len(servers) : servers[i].id = id /\ servers[i].rcon.password # ""
WithoutPassword(id) ==
    /\ \E i \in 1..Len(servers) : servers[i].id = id
    /\ \A i \in 1..Len(servers) : servers[i].id = id => servers[i].rcon.password = ""

(***************************************************************************)
(* C12: lastAction and lastActionAt of a server change only in a step that *)
(* handles a start, stop or restart request for that server; every step of *)
(* a status or stats call leaves them as they were.                        *)
(***************************************************************************)
C12_OnlyLifecycleActions ==
    [][/\ \A id \in Ids :
            (\/ StateOf(id)'.lastAction # StateOf(id).lastAction
             \/ StateOf(id)'.lastActionAt # StateOf(id).lastActionAt)
                => \E action \in Actions : PostAction(id, action)
       /\ calls' # calls =>
            \A id \in Ids :
                /\ StateOf(id)'.lastAction = StateOf(id).lastAction
                /\ StateOf(id)'.lastActionAt = StateOf(id).lastActionAt]_vars

\* a probe has flipped a started server to offline and its lastAction still
\* is the start
C12_Witness ==
    \E k \in Calls :
        /\ calls[k].pc = "done" /\ calls[k].route = "status" /\ calls[k].id # ""
        /\ StateOf(calls[k].id).status = "offline"
        /\ StateOf(calls[k].id).lastAction = "start"
        /\ StateOf(calls[k].id).lastActionAt # <<"null">>

(***************************************************************************)
(* C13: once the remote-console connection of a stats call is open, no     *)
(* failing sub-step makes the call answer an error: the response is a      *)
(* snapshot; a throwing tps query gives tps = null and the call goes on.   *)
(***************************************************************************)
C13_OnlyConnectAborts ==
    [][/\ \A k \in Calls :
            (calls[k].route = "stats" /\ calls[k].rcon /\ Responds(k)) =>
                res'.status = 200 /\ res'.body.kind = "stats"
       /\ \A k \in Calls :
            StatsTps(k, Throws) =>
                calls'[k].tps.null /\ calls'[k].sent = calls[k].sent
                    /\ calls'[k].players = calls[k].players]_vars

(***************************************************************************)
(* C14: when a stats call for a server with remote-console credentials     *)
(* answers, the server's status is the outcome: online with a snapshot,    *)
(* offline with an error; a failed connect answers an error.               *)
(***************************************************************************)
C14_StatusIsOutcome ==
    [][\A k \in Calls :
          (calls'[k].route = "stats" /\ Responds(k) /\ WithPassword(calls'[k].id)) =>
              /\ res'.status = 200 =>
                    /\ res'.body.kind = "stats"
                    /\ res'.body.status = "online"
                    /\ StateIn(serverStates', calls'[k].id).status = "online"
              /\ res'.status # 200 =>
                    /\ res'.body.kind = "error"
                    /\ StateIn(serverStates', calls'[k].id).status = "offline"
              /\ (\E failure \in ConnectFailures, leaked \in BOOLEAN :
                     StatsConnectFailed(k, failure, leaked)) => res'.status = 500]_vars

\* a snapshot just answered for a server whose last action was a stop
C14_Witness ==
    \E k \in Calls :
        /\ calls[k].route = "stats" /\ calls[k].pc = "end" /\ calls[k].sent = 1
        /\ res.status = 200 /\ res.body.kind = "stats" /\ res.body.status = "online"
        /\ StateOf(calls[k].id).lastAction = "stop"
        /\ StateOf(calls[k].id).status = "online"

(***************************************************************************)
(* C15: a stats request for a registered server without a remote-console   *)
(* password is answered 400 "RCON not configured." in the same step, opens *)
(* no session, and leaves every lifecycle state as it was.                 *)
(***************************************************************************)
C15_NotConfigured ==
    [][\A k \in Calls, id \in Ids :
          (GetStats(k, id) /\ serversLoaded /\ WithoutPassword(id)) =>
              /\ res'.status = 400
              /\ res'.body = [kind |-> "error", error |-> "RCON not configured."]
              /\ calls'[k].pc = "done" /\ calls'[k].sent = 1
              /\ calls'[k].session = "none" /\ ~calls'[k].rcon
              /\ serverStates' = serverStates]_vars

\* the error just answered for a server that a start has put online
C15_Witness ==
    \E k \in Calls :
        /\ calls[k].route = "stats" /\ calls[k].pc = "done"
        /\ res.status = 400 /\ res.body.kind = "error"
        /\ WithoutPassword(calls[k].id)
        /\ StateOf(calls[k].id).status = "online"
        /\ StateOf(calls[k].id).lastAction = "start"

(***************************************************************************)
(* C16: a status request leaves the server offline both when the remote    *)
(* console is configured but the connect fails and when the server has no  *)
(* remote-console password.                                                *)
(***************************************************************************)
C16_ProbeSetsOffline ==
    [][/\ \A k \in Calls, failure \in ConnectFailures, leaked \in BOOLEAN :
            StatusConnectFailed(k, failure, leaked) =>
                StateOf(calls[k].id)'.status = "offline"
       /\ \A k \in Calls, id \in Ids :
            (GetStatus(k, id) /\ serversLoaded /\ WithoutPassword(id)) =>
                /\ StateOf(id)'.status = "offline"
                /\ res'.body.state.status = "offline"]_vars

(***************************************************************************)
(* C17: when a status or stats handler has finished, the remote-console    *)
(* session it opened, if any, is closed.                                   *)
(***************************************************************************)
C17_SessionsClosed ==
    \A k \in Calls : calls[k].pc = "done" => calls[k].session \in {"none", "closed"}

(***************************************************************************)
(* C18: every status or stats request that has arrived is answered, and    *)
(* answered once: no call ever has two responses, a finished call has one, *)
(* and a pending call eventually has one.  A connect that times out is     *)
(* answered in that step, with the server offline.                         *)
(***************************************************************************)
C18_OneResponse ==
    /\ [](\A k \in Calls : calls[k].sent <= 1 /\ (calls[k].pc = "done" => calls[k].sent = 1))
    /\ \A k \in Calls : (calls[k].pc # "idle") ~> (calls[k].sent = 1)
    /\ [][\A k \in Calls, leaked \in BOOLEAN :
            (StatusConnectFailed(k, "timeout", leaked) \/ StatsConnectFailed(k, "timeout", leaked))
                => /\ Responds(k)
                   /\ calls'[k].pc = "done"
                   /\ StateIn(serverStates', calls[k].id).status = "offline"]_vars

\* a status call answered after its connect timed out, on a started server
C18_Witness ==
    \E k \in Calls :
        /\ calls[k].route = "status" /\ calls[k].pc = "done" /\ calls[k].sent = 1
        /\ calls[k].failure = "timeout"
        /\ res.status = 200 /\ res.body.kind = "state" /\ res.body.state.status = "offline"
        /\ res.body.state.lastAction = "start"

(***************************************************************************)
(* C19: after a successful load the ids of the registry are pairwise       *)
(* distinct, and a file in which two entries yield the same id is rejected *)
(* and leaves the registry unloaded.                                       *)
(***************************************************************************)
C19_DistinctIds ==
    /\ serversLoaded =>
          \A i, j \in 1..Len(servers) : i # j => servers[i].id # servers[j].id
    /\ loadState = "failed" => ~serversLoaded /\ servers = <<>>

(***************************************************************************)
(* C20: while the registry is not loaded every request under /api/servers  *)
(* is answered 500 "No servers configured." and changes no lifecycle       *)
(* state, log buffer or subscriber set; a file that cannot be read, has no *)
(* servers array or has one malformed entry leaves the registry unloaded.  *)
(***************************************************************************)
C20_BadFiles == {Unreadable, NoArray, NoPortFile, NoNameFile}

C20_Unloaded ==
    [][/\ (~serversLoaded /\ Request) =>
            /\ res'.status = 500
            /\ res'.body = [kind |-> "error", error |-> "No servers configured."]
            /\ UNCHANGED <<serverStates, serverLogs, serverSubscribers, appended, inbox>>
            /\ \A k \in Calls : calls'[k].session = "none"
       /\ loadState' # loadState =>
            \A file \in C20_BadFiles :
                Load(file) => ~serversLoaded' /\ servers' = <<>> /\ loadState' = "failed"]_vars

\* a request just refused after the load has failed
C20_Witness ==
    /\ loadState = "failed" /\ ~serversLoaded
    /\ res.status = 500 /\ res.body = [kind |-> "error", error |-> "No servers configured."]
    /\ serverStates = EmptyMap /\ serverLogs = EmptyMap
    /\ \E k \in Calls : calls[k].pc = "done" /\ calls[k].route = "stats"

(***************************************************************************)
(* Path safety of the file routes                                          *)
(***************************************************************************)
\* where a relative path leads from a root, by the directory tree alone
C21_Target(root, rel) == PathResolve(root, normalizeRelativePath(rel))
C21_Escapes(root, rel) == ~IsPrefix(root, C21_Target(root, rel))

\* C21: for every path a file request gave it, resolveServerPath throws or
\* returns the server root or a path below it; and a request one of whose
\* paths was refused, or leads out of the root, made no fs call at all.
C21_Confined ==
    LET server == getServerById(fsCalls.id)
        root == RootOf(server)
    IN  /\ \A i \in 1..Len(fsCalls.rels) :
              LET resolved == resolveServerPath(server, fsCalls.rels[i])
              IN  /\ resolved.ok => IsPrefix(root, resolved.full)
                  /\ ~resolved.ok => fsCalls.ops = <<>>
        /\ (\E i \in 1..Len(fsCalls.rels) : C21_Escapes(root, fsCalls.rels[i]))
              => fsCalls.ops = <<>>

\* a rename whose second path leads out of the root was answered
C21_Witness ==
    /\ fsCalls.route = "rename"
    /\ Len(fsCalls.rels) = 2
    /\ ~C21_Escapes(RootOf(getServerById(fsCalls.id)), fsCalls.rels[1])
    /\ C21_Escapes(RootOf(getServerById(fsCalls.id)), fsCalls.rels[2])
    /\ fsCalls.ops = <<>>
    /\ res = Json(400, ErrorBody("Invalid path."))

(***************************************************************************)
(* Malformed live-channel messages                                         *)
(***************************************************************************)
\* payloads that are not JSON, and JSON values that carry no type
C22_Unparsable == {"", "{", "subscribe"}
C22_NoType ==
    {"null", "42", "\"subscribe\"", "[]", "{}", "{\"serverId\":\"s1\"}",
     "{\"type\":\"\",\"serverId\":\"s1\"}", "{\"type\":0,\"command\":\"say hi\"}"}

\* C22: a message that cannot be parsed or has no type changes no subscriber
\* set, log buffer or lifecycle state, sends nothing to any connection, and
\* leaves the connection open with its subscription.
C22_Dropped ==
    [][\A c \in Conns :
          (/\ received'[c] \in C22_Unparsable \cup C22_NoType
           /\ \E raw \in C22_Unparsable \cup C22_NoType : WsMessage(c, raw))
          => /\ UNCHANGED <<serverSubscribers, serverLogs, serverStates, inbox, wsServerId>>
             /\ readyState'[c] = "OPEN"]_vars

\* a subscribed connection whose last message was malformed, with a line
\* already pushed to it
C22_Witness ==
    \E c \in Conns :
        /\ received[c] \in C22_Unparsable \cup C22_NoType
        /\ readyState[c] = "OPEN"
        /\ wsServerId[c] # ""
        /\ c \in MapGet(serverSubscribers, wsServerId[c], {})
        /\ \E i \in 1..Len(inbox[c]) : inbox[c][i].msg.type = "log"

(***************************************************************************)
(* Ids of the maps                                                         *)
(***************************************************************************)
RegisteredIds == {servers[i].id : i \in 1..Len(servers)}

\* C23: the keys of serverStates, serverLogs and serverSubscribers are ids
\* of registered servers, in every reachable state.
C23_RegisteredKeys ==
    /\ DOMAIN serverStates \subseteq RegisteredIds
    /\ DOMAIN serverLogs \subseteq RegisteredIds
    /\ DOMAIN serverSubscribers \subseteq RegisteredIds

(***************************************************************************)
(* A stop against a status or stats call in progress                       *)
(***************************************************************************)
\* C24: a status or stats call that was in progress when a stop for its
\* server was handled does not overwrite the stop's status: while the status
\* is still offline, no step of such a call makes it anything else.
C24_StopStands ==
    [][\A k \in overtaken :
          (/\ StateOf(calls[k].id).status = "offline"
           /\ StateOf(calls[k].id).lastAction = "stop"
           /\ calls'[k] # calls[k])
          => StateIn(serverStates', calls[k].id).status = "offline"]_vars

(***************************************************************************)
(* FileService against the file routes                                     *)
(***************************************************************************)
\* the path of the directory that holds `path`
C26_ParentText(path) ==
    LET cuts == {i \in 1..Len(path) : path[i] = "/"}
    IN  IF cuts = {} THEN <<>>
        ELSE SubSeq(path, 1, (CHOOSE i \in cuts : \A j \in cuts : j <= i) - 1)

\* the entry names a list of the directory at `path` answers
C26_Listed(server, path) ==
    LET answer == ListOutcome(resolveServerPath(server, path)).res
    IN  IF answer.status # 200 THEN {}
        ELSE {answer.body.entries[i].name : i \in 1..Len(answer.body.entries)}

\* C26: when the backend has handled the request of FileService.save(id,
\* path, content) for a path the disk can take, a read of that path answers
\* content; when it has handled the request of FileService.createFolder(id,
\* path), a list of the parent of path names the new directory.
C26_SaveThenRead ==
    [][\A path \in WritePaths \ {<<>>} :
          LET id == ConfigIds[1]
              server == getServerById(id)
              resolved == resolveServerPath(server, path)
          IN  /\ \A content \in Contents :
                    (/\ fsCalls'.route = "save"
                     /\ ~Rejected(id)
                     /\ resolved.ok
                     /\ WriteOutcome("save", resolved, content).res = OkTrue
                     /\ SaveContent(id, FileService_save(id, path, content).req))
                    => /\ ReadOutcome("read", resolved)'.res.status = 200
                       /\ ReadOutcome("read", resolved)'.res.body.content = content
              /\ (/\ fsCalls'.route = "mkdir"
                  /\ ~Rejected(id)
                  /\ resolved.ok
                  /\ MkdirOk(disk, resolved.full)
                  /\ MakeDir(id, FileService_createFolder(id, path).req))
                 => PathBasename(resolved.full) \in C26_Listed(server, C26_ParentText(path))']_vars

(***************************************************************************)
(* The values of status                                                    *)
(***************************************************************************)
\* C29: no step leaves a lifecycle state with a status other than offline
\* or online, and a restart action leaves the status online at once.
C29_NeverRestarting ==
    [][/\ \A id \in DOMAIN serverStates' :
             serverStates'[id].status \in {"offline", "online"}
       /\ \A id \in Ids :
             (~Rejected(id) /\ PostAction(id, "restart"))
             => StateIn(serverStates', id).status = "online"]_vars

\* a restarted server, after a status call for it has completed
C29_Witness ==
    \E id \in Ids, k \in Calls :
        /\ StateOf(id).lastAction = "restart"
        /\ StateOf(id).status = "online"
        /\ calls[k].id = id /\ calls[k].pc = "done" /\ calls[k].route = "status"

C27_SupersededInert ==
    [][\A token \in 1..Len(loads) :
          (/\ token # app.loadToken
           /\ loads[token].phase = "pending"
           /\ loads'[token].phase # "pending")
          => /\ app'.servers = app.servers
             /\ app'.loading = app.loading
             /\ app'.error = app.error]_vars

(***************************************************************************)
(* ConsoleSocketService                                                    *)
(***************************************************************************)
RunningTimers == {i \in 1..Len(timers) : timers[i] = "running"}
LiveSockets == {j \in 1..Len(sockets) : sockets[j].readyState \in {"CONNECTING", "OPEN"}}

\* C25: every line of the value of logs$ comes from the buffer of the server
\* the service was last connected to.
C25_OnlyLinesOfServer ==
    \A i \in 1..Len(console.logs) : console.logs[i].src = console.serverId

\* C30: at most one interval timer is running and at most one socket is
\* connecting or open, they are the ones the service holds, and after
\* disconnect() or connect('') there is none of either.
C30_OneTimerOneSocket ==
    /\ Cardinality(RunningTimers) <= 1
    /\ Cardinality(LiveSockets) <= 1
    /\ RunningTimers \subseteq {console.pollingId}
    /\ LiveSockets \subseteq {console.socket}
    /\ ~console.attached => RunningTimers = {} /\ LiveSockets = {}

\* a second timer was set after the first was cleared, or a second socket
\* was created after the first was closed
C30_Witness ==
    \/ Len(timers) = 2 /\ timers[1] = "cleared" /\ timers[2] = "running"
    \/ /\ Len(sockets) = 2 /\ sockets[1].readyState \in {"CLOSING", "CLOSED"}
       /\ sockets[1].conn # 0 /\ sockets[2].readyState = "CONNECTING"

====
